---- MODULE Spec2Model ----
(***************************************************************************)
(* Discovery worker of Topologist: the job handler do_discovery_job        *)
(* (src/worker/callback.py), the cascade publisher (src/worker/consumer.py)*)
(* and the queue consumer (src/worker/worker.py), over the document store  *)
(* (devices, identities, graph_nodes, graph_links, topology) and the       *)
(* durable "discovery" queue; the path planner                             *)
(* (src/worker/router_client.py) and the capability classifier             *)
(* (src/worker/parsers.py) as functions of their inputs.                   *)
(***************************************************************************)
EXTENDS Naturals, Sequences, FiniteSets, TLC

VARIABLES devices, identities, graph_nodes, graph_links, topology, queue, clock, requests, last

\* the consumer loop's position, the capability string under classification
\* and the path planner's call, each used by the specification of its own
VARIABLES consumer, classifier, planner

\* a connection attempt at the broker, the workers running jobs side by side,
\* the identity requests of the web application in progress, and a chained
\* SSH connection under construction
VARIABLES broker, workers, web, chain

\* the reachability_cache collection and the probe of the hosts that is in
\* progress or has returned
VARIABLE reachability

\* what each host of the network answers to a job, fixed for a behaviour
VARIABLE network

vars == <<devices, identities, graph_nodes, graph_links, topology, queue, clock, requests, last,
         consumer, classifier, planner, broker, workers, web, chain, reachability, network>>

(***************************************************************************)
(* Bounds of the exploration.                                              *)
(***************************************************************************)
\* jobs the worker processes in one behaviour
MaxJobs == 2
\* neighbor blocks in one command output
MaxLinks == 2
\* requests the operator sends to the scheduler in one behaviour
MaxRequests == 1

(***************************************************************************)
(* Values.                                                                 *)
(***************************************************************************)
\* Python None, and a field that is absent from a document
None == "<None>"

IPs == {"10.0.0.1", "10.1.0.5", "10.1.0.6", "10.2.0.9"}
SysNames == {"core-sw", "dist-1"}
LocalIfs == <<"Gi0/1", "Gi0/2", "Gi0/3">>
BriefText == "Interface IP-Address OK? Method Status Protocol"

\* a timestamp that is None; time.time() values are positive
NoTime == 0

\* truth value of an optional string: None and "" are false
Truthy(x) == x # None /\ x # ""

\* str.strip() of a host value
Strip(s) == IF s = " " THEN "" ELSE s

(***************************************************************************)
(* String order.  sorted() compares str values code point by code point.   *)
(***************************************************************************)
CodePoints(s) ==
    CASE s = "10.0.0.1" -> <<49, 48, 46, 48, 46, 48, 46, 49>>
      [] s = "10.1.0.5" -> <<49, 48, 46, 49, 46, 48, 46, 53>>
      [] s = "10.1.0.6" -> <<49, 48, 46, 49, 46, 48, 46, 54>>
      [] s = "10.1.0.7" -> <<49, 48, 46, 49, 46, 48, 46, 55>>
      [] s = "10.2.0.9" -> <<49, 48, 46, 50, 46, 48, 46, 57>>
      [] s = "core-sw"  -> <<99, 111, 114, 101, 45, 115, 119>>
      [] s = "dist-1"   -> <<100, 105, 115, 116, 45, 49>>
      [] s = "name:"    -> <<110, 97, 109, 101, 58>>
      [] s = " "        -> <<32>>
      [] OTHER          -> <<>>

\* f"name:{r_name}"
NameId(n) == "name:" \o n

IdChars(id) ==
    IF \E n \in SysNames : id = NameId(n)
    THEN CodePoints("name:") \o CodePoints(CHOOSE n \in SysNames : id = NameId(n))
    ELSE CodePoints(id)

RECURSIVE LexLess(_, _)
LexLess(s, t) ==
    IF t = <<>> THEN FALSE
    ELSE IF s = <<>> THEN TRUE
    ELSE IF Head(s) # Head(t) THEN Head(s) < Head(t)
    ELSE LexLess(Tail(s), Tail(t))

\* a <= b on str
StrLeq(a, b) == a = b \/ LexLess(IdChars(a), IdChars(b))

\* the pair left as it came
SortedPairSeedFirst(x, y) == <<x, y>>

\* sorted([x, y])
SortedPair(x, y) == IF StrLeq(x, y) THEN <<x, y>> ELSE <<y, x>>

(***************************************************************************)
(* Document store queries.                                                 *)
(***************************************************************************)
InSeq(x, s) == \E i \in 1..Len(s) : s[i] = x

\* find_one: index of the first document among the matching ones (hits, a
\* set of indices of docs), 0 for no document
FindOne(docs, hits) ==
    IF hits # {} THEN CHOOSE i \in hits : \A j \in hits : i <= j ELSE 0

\* interface_map: a dict, kept as a set of <<key, value>> pairs
MapKeys(m) == {p[1] : p \in m}
MapGet(m, k) == (CHOOSE p \in m : p[1] = k)[2]
MapPut(m, k, v) == {p \in m : p[1] # k} \cup {<<k, v>>}

(***************************************************************************)
(* Graph consolidation.                                                    *)
(***************************************************************************)
\* canonical remote node id of a link; None when the link is skipped
RemoteId(link, devs) ==
    LET r_ip == link.remote_mgmt_ip
        r_name == link.remote_sysname
        device_by_ip == FindOne(devs, {n \in 1..Len(devs) : devs[n].host = r_ip})
        device_by_name == FindOne(devs, {n \in 1..Len(devs) : devs[n].display_name = r_name /\ devs[n].host # ""})
        device_by_alt_ip == FindOne(devs, {n \in 1..Len(devs) : InSeq(r_ip, devs[n].alternate_ips)})
    IN  IF Truthy(r_ip)
        THEN IF device_by_alt_ip # 0 THEN devs[device_by_alt_ip].host
             ELSE IF device_by_ip # 0 THEN devs[device_by_ip].host
             ELSE IF device_by_name # 0 THEN devs[device_by_name].host
             ELSE r_ip
        ELSE IF Truthy(r_name) THEN NameId(r_name)
        ELSE None

\* f"{a}|{b}"
EdgeId(a, b) == a \o "|" \o b

\* update_one({"_id": id}, {$set: {id, last_seen}, $setOnInsert: {first_seen}}, upsert=True)
UpsertNode(nodes, id, now) ==
    IF \E n \in nodes : n._id = id
    THEN {IF n._id = id THEN [n EXCEPT !.id = id, !.last_seen = now] ELSE n : n \in nodes}
    ELSE nodes \cup {[_id |-> id, id |-> id, first_seen |-> now, last_seen |-> now]}

\* update_one({"_id": edge_id}, {$set: {a, b, ifA, ifB, last_seen}, $setOnInsert: {first_seen}}, upsert=True)
UpsertEdge(edges, edge_id, a, b, if_a, if_b, now) ==
    IF \E e \in edges : e._id = edge_id
    THEN {IF e._id = edge_id
          THEN [e EXCEPT !.a = a, !.b = b, !.ifA = if_a, !.ifB = if_b, !.last_seen = now]
          ELSE e : e \in edges}
    ELSE edges \cup {[_id |-> edge_id, a |-> a, b |-> b, ifA |-> if_a, ifB |-> if_b,
                      first_seen |-> now, last_seen |-> now]}

\* the body of upsert_graph's loop for one link
UpsertLink(g, seed_ip, link, devs, now) ==
    LET remote_id == RemoteId(link, devs)
        ab == SortedPair(seed_ip, remote_id)
        a == ab[1]
        b == ab[2]
        if_a == IF a = seed_ip THEN link.local_if ELSE link.remote_port
        if_b == IF b = remote_id THEN link.remote_port ELSE link.local_if
    IN  IF remote_id = None THEN g
        ELSE [nodes |-> UpsertNode(UpsertNode(g.nodes, seed_ip, now), remote_id, now),
              links |-> UpsertEdge(g.links, EdgeId(a, b), a, b, if_a, if_b, now)]

RECURSIVE upsert_graph(_, _, _, _, _)
upsert_graph(g, seed_ip, links, devs, now) ==
    IF links = <<>> THEN g
    ELSE upsert_graph(UpsertLink(g, seed_ip, Head(links), devs, now),
                      seed_ip, Tail(links), devs, now)

\* build_graph: the node ids and the (a, b, x, y) edges of the snapshot; the
\* sorted lists it returns are these sets in str order
build_graph(seed_ip, links, devs) ==
    LET kept == {i \in 1..Len(links) : RemoteId(links[i], devs) # None}
        edge(i) ==
            LET remote_id == RemoteId(links[i], devs)
                ab == SortedPair(seed_ip, remote_id)
            IN  IF ab[1] = seed_ip
                THEN <<ab[1], ab[2], links[i].local_if, links[i].remote_port>>
                ELSE <<ab[1], ab[2], links[i].remote_port, links[i].local_if>>
    IN  [nodes |-> {seed_ip} \cup {RemoteId(links[i], devs) : i \in kept},
         edges |-> {edge(i) : i \in kept}]

(***************************************************************************)
(* Neighbor reconciliation against the device inventory.                   *)
(***************************************************************************)
\* the default identity's contribution to a new device record
DefaultsOf(idents) ==
    LET i == FindOne(idents, {n \in 1..Len(idents) : idents[n].is_default})
        u == IF i # 0 THEN idents[i].username ELSE None
        p == IF i # 0 THEN idents[i].password ELSE None
    IN  [identity_id |-> IF i # 0 THEN idents[i]._id ELSE None,
         username |-> u,
         password |-> p,
         status |-> IF Truthy(u) /\ Truthy(p) THEN "ready" ELSE "needs_creds"]

\* a neighbor inserted at the depth of the seed
NewDeviceSeedDepth(host, rname, r_type, imap, dflt, depth, seed_ip, now) ==
    [host |-> host, display_name |-> rname, platform |-> "cisco_ios",
     identity_id |-> dflt.identity_id, username |-> dflt.username,
     password |-> dflt.password, status |-> dflt.status,
     depth |-> depth, parent |-> seed_ip,
     device_type |-> IF r_type # "unknown" THEN r_type ELSE None,
     alternate_ips |-> <<>>, interface_map |-> imap,
     created_at |-> now, last_seen |-> 0, error |-> None]

\* the document inserted for a neighbor; alternate_ips and interface_map are
\* absent from a name-only placeholder, which reads as empty
NewDevice(host, rname, r_type, imap, dflt, depth, seed_ip, now) ==
    [host |-> host, display_name |-> rname, platform |-> "cisco_ios",
     identity_id |-> dflt.identity_id, username |-> dflt.username,
     password |-> dflt.password, status |-> dflt.status,
     depth |-> depth + 1, parent |-> seed_ip,
     device_type |-> IF r_type # "unknown" THEN r_type ELSE None,
     alternate_ips |-> <<>>, interface_map |-> imap,
     created_at |-> now, last_seen |-> NoTime, error |-> None]

\* the message enqueue_discovery publishes
DiscoveryJob(device_id, depth, auto_recursive, max_depth) ==
    [type |-> "discovery", device_id |-> device_id, depth |-> depth,
     auto_recursive |-> auto_recursive, max_depth |-> max_depth]

\* the interface recorded without the alternate IP
AddAlternateIpMapOnly(e, link, depth, seed_ip) ==
    LET r_ip == link.remote_mgmt_ip
        e1 == IF ~InSeq(r_ip, e.alternate_ips) /\ r_ip # e.host
              THEN [e EXCEPT !.interface_map = MapPut(@, r_ip, link.remote_port)]
              ELSE e
    IN  IF e.depth > depth + 1
        THEN [e1 EXCEPT !.depth = depth + 1, !.parent = seed_ip]
        ELSE e1

\* same name, other IP: the IP becomes an alternate IP of the existing record
AddAlternateIp(e, link, depth, seed_ip) ==
    LET r_ip == link.remote_mgmt_ip
        e1 == IF ~InSeq(r_ip, e.alternate_ips) /\ r_ip # e.host
              THEN [e EXCEPT !.alternate_ips = Append(@, r_ip),
                             !.interface_map = MapPut(@, r_ip, link.remote_port)]
              ELSE e
    IN  IF e.depth > depth + 1
        THEN [e1 EXCEPT !.depth = depth + 1, !.parent = seed_ip]
        ELSE e1

\* the depth overwritten whether or not the new path is shorter
UpdateExistingAnyDepth(e, link, depth, seed_ip) ==
    LET r_ip == link.remote_mgmt_ip
        r_type == link.device_type
        e1 == IF ~Truthy(e.display_name)
              THEN [e EXCEPT !.display_name = link.remote_sysname] ELSE e
        e2 == [e1 EXCEPT !.depth = depth + 1, !.parent = seed_ip]
        e3 == IF ~Truthy(e.device_type) /\ Truthy(r_type) /\ r_type # "unknown"
              THEN [e2 EXCEPT !.device_type = r_type] ELSE e2
    IN  IF Truthy(r_ip) /\ Truthy(link.remote_port)
        THEN [e3 EXCEPT !.interface_map = MapPut(e.interface_map, r_ip, link.remote_port)]
        ELSE e3

\* a record with this IP exists: the minimal update
UpdateExisting(e, link, depth, seed_ip) ==
    LET r_ip == link.remote_mgmt_ip
        r_type == link.device_type
        e1 == IF ~Truthy(e.display_name)
              THEN [e EXCEPT !.display_name = link.remote_sysname] ELSE e
        e2 == IF e.depth > depth + 1
              THEN [e1 EXCEPT !.depth = depth + 1, !.parent = seed_ip] ELSE e1
        e3 == IF ~Truthy(e.device_type) /\ Truthy(r_type) /\ r_type # "unknown"
              THEN [e2 EXCEPT !.device_type = r_type] ELSE e2
    IN  IF Truthy(r_ip) /\ Truthy(link.remote_port)
        THEN [e3 EXCEPT !.interface_map = MapPut(e.interface_map, r_ip, link.remote_port)]
        ELSE e3

\* a lookup that never finds the placeholder of a name
existing_placeholder_never(devs, rname) == 0

\* find_one({"display_name": rname, "host": ""})
existing_placeholder(devs, rname) ==
    FindOne(devs, {n \in 1..Len(devs) : devs[n].display_name = rname /\ devs[n].host = ""})

\* find_one({"display_name": rname, "host": {"$ne": ""}})
existing_by_name(devs, rname) ==
    FindOne(devs, {n \in 1..Len(devs) : devs[n].display_name = rname /\ devs[n].host # ""})

\* a lookup by IP that finds nothing
existing_by_ip_none(devs, r_ip) == 0

\* find_one({"host": r_ip})
existing_by_ip(devs, r_ip) ==
    FindOne(devs, {n \in 1..Len(devs) : devs[n].host = r_ip})

\* a neighbor loop that enqueues a child whatever the depth
ReconcileLinkAnyDepth(acc, link, job, seed_ip, dflt, broker_up, now) ==
    LET devs == acc.devices
        r_ip == link.remote_mgmt_ip
        rname == link.remote_sysname
        r_type == link.device_type
        by_name == existing_by_name(devs, rname)
        by_ip == existing_by_ip(devs, r_ip)
        recurse == job.auto_recursive
        out ==
            IF ~Truthy(r_ip)
            THEN IF existing_placeholder(devs, rname) = 0
                 THEN [acc EXCEPT
                         !.devices = Append(devs, NewDevice("", rname, r_type, {}, dflt,
                                                            job.depth, seed_ip, now)),
                         !.new_devices_added = TRUE]
                 ELSE acc
            ELSE IF by_name # 0 /\ by_ip = 0
            THEN [acc EXCEPT !.devices[by_name] =
                                 AddAlternateIp(@, link, job.depth, seed_ip)]
            ELSE IF by_ip = 0
            THEN [acc EXCEPT
                    !.devices = Append(devs, NewDevice(r_ip, rname, r_type,
                                                       {<<r_ip, link.remote_port>>}, dflt,
                                                       job.depth, seed_ip, now)),
                    !.new_devices_added = TRUE,
                    !.published =
                        IF recurse /\ broker_up
                        THEN Append(@, DiscoveryJob(Len(devs) + 1, job.depth + 1,
                                                    job.auto_recursive, job.max_depth))
                        ELSE @,
                    !.raised = recurse /\ ~broker_up]
            ELSE [acc EXCEPT !.devices[by_ip] =
                                 UpdateExisting(@, link, job.depth, seed_ip)]
    IN  [out EXCEPT !.steps = Append(@, out.devices)]

\* the body of the neighbor loop for one link.  acc carries the inventory,
\* new_devices_added, the messages published so far, whether an exception
\* was raised, and the inventory after each link
ReconcileLink(acc, link, job, seed_ip, dflt, broker_up, now) ==
    LET devs == acc.devices
        r_ip == link.remote_mgmt_ip
        rname == link.remote_sysname
        r_type == link.device_type
        by_name == existing_by_name(devs, rname)
        by_ip == existing_by_ip(devs, r_ip)
        recurse == job.auto_recursive /\ job.depth + 1 <= job.max_depth
        out ==
            IF ~Truthy(r_ip)
            THEN IF existing_placeholder(devs, rname) = 0
                 THEN [acc EXCEPT
                         !.devices = Append(devs, NewDevice("", rname, r_type, {}, dflt,
                                                            job.depth, seed_ip, now)),
                         !.new_devices_added = TRUE]
                 ELSE acc
            ELSE IF by_name # 0 /\ by_ip = 0
            THEN [acc EXCEPT !.devices[by_name] =
                                 AddAlternateIp(@, link, job.depth, seed_ip)]
            ELSE IF by_ip = 0
            THEN [acc EXCEPT
                    !.devices = Append(devs, NewDevice(r_ip, rname, r_type,
                                                       {<<r_ip, link.remote_port>>}, dflt,
                                                       job.depth, seed_ip, now)),
                    !.new_devices_added = TRUE,
                    !.published =
                        IF recurse /\ broker_up
                        THEN Append(@, DiscoveryJob(Len(devs) + 1, job.depth + 1,
                                                    job.auto_recursive, job.max_depth))
                        ELSE @,
                    !.raised = recurse /\ ~broker_up]
            ELSE [acc EXCEPT !.devices[by_ip] =
                                 UpdateExisting(@, link, job.depth, seed_ip)]
    IN  [out EXCEPT !.steps = Append(@, out.devices)]

RECURSIVE Reconcile(_, _, _, _, _, _, _)
Reconcile(acc, links, job, seed_ip, dflt, broker_up, now) ==
    IF links = <<>> \/ acc.raised THEN acc
    ELSE Reconcile(ReconcileLink(acc, Head(links), job, seed_ip, dflt, broker_up, now),
                   Tail(links), job, seed_ip, dflt, broker_up, now)

(***************************************************************************)
(* Cascade.                                                                *)
(***************************************************************************)
\* a cascade that enumerates every device, whatever its status
CascadeJobsAnyStatus(devs, i) ==
    [k \in 1..(Len(devs) + 1 - i) |-> DiscoveryJob(k + i - 1, devs[k + i - 1].depth, FALSE, 3)]

RECURSIVE CascadeJobs(_, _)
CascadeJobs(devs, i) ==
    IF i > Len(devs) THEN <<>>
    ELSE IF devs[i].status \in {"ready", "error"}
         THEN <<DiscoveryJob(i, devs[i].depth, FALSE, 3)>> \o CascadeJobs(devs, i + 1)
         ELSE CascadeJobs(devs, i + 1)

\* a cascade whose failed broker connection reaches the calling job
CascadeExceptionPropagated(new_devices_added, broker_up) == new_devices_added /\ ~broker_up

\* whether trigger_discover_all raises in the calling job: never, its
\* try/except prints every failure and returns
CascadeException(new_devices_added, broker_up) == FALSE

\* the messages trigger_discover_all publishes; a failed broker connection
\* is logged and swallowed
trigger_discover_all(devs, broker_up) ==
    IF broker_up THEN CascadeJobs(devs, 1) ELSE <<>>

(***************************************************************************)
(* The job handler.                                                        *)
(***************************************************************************)
Event(op, arg) == [op |-> op, arg |-> arg]

ShowCdp == "show cdp neighbors detail"
ShowLldp == "show lldp neighbors detail"
ShowBrief == "show ip interface brief"

\* if not links: the LLDP fallback is taken
NeedsFallbackAlways(cdp_links) == TRUE

NeedsFallback(cdp_links) == cdp_links = <<>>

\* the credentials looked at before the host
PrecheckCredsFirst(dev) ==
    IF ~Truthy(dev.username) \/ ~Truthy(dev.password) THEN "needs_creds"
    ELSE IF ~Truthy(dev.host) \/ Strip(dev.host) = "" THEN "needs_ip"
    ELSE None

\* the first precondition that fails, None when the job may connect
Precheck(dev) ==
    IF ~Truthy(dev.host) \/ Strip(dev.host) = "" THEN "needs_ip"
    ELSE IF ~Truthy(dev.username) \/ ~Truthy(dev.password) THEN "needs_creds"
    ELSE None

\* the LLDP links left with the type their capabilities classify to
ClearDeviceTypeKept(links) == links

\* for l in links: l["device_type"] = None
ClearDeviceType(links) == [i \in 1..Len(links) |-> [links[i] EXCEPT !.device_type = None]]

\* write_topology
write_topology(topo, seed_ip, nodes, edges, brief, now) ==
    Append(topo, [created_at |-> now, seed |-> seed_ip, nodes |-> nodes,
                  links |-> edges, interface_brief |-> brief])

\* what one run of do_discovery_job leaves behind
JobResult(devs, g, topo, published, trace, outcome) ==
    [devices |-> devs, graph |-> g, topology |-> topo, published |-> published,
     trace |-> trace, outcome |-> outcome,
     seed_ip |-> None, links |-> <<>>, used_proto |-> None, inventory |-> <<>>,
     steps |-> <<>>, new_devices_added |-> FALSE, cascade |-> <<>>]

\* an except clause that leaves a device that was set to ready as it is
FailedKeepsReady(devs, oid, g, topo, published, trace, has_conn, msg, now) ==
    [devices |-> IF devs[oid].status = "ready" THEN devs
                 ELSE [devs EXCEPT ![oid].status = "error", ![oid].error = msg,
                                   ![oid].last_seen = now],
     graph |-> g, topology |-> topo, published |-> published,
     trace |-> IF has_conn THEN Append(trace, [op |-> "disconnect", arg |-> ""]) ELSE trace,
     outcome |-> "error",
     seed_ip |-> None, links |-> <<>>, used_proto |-> None, inventory |-> <<>>,
     steps |-> <<>>, new_devices_added |-> FALSE, cascade |-> <<>>]

\* an except clause that prints the exception and leaves the record as the
\* job had it
FailedSilently(devs, oid, g, topo, published, trace, has_conn, msg, now) ==
    JobResult(devs, g, topo, published,
              IF has_conn THEN Append(trace, [op |-> "disconnect", arg |-> ""]) ELSE trace,
              "error")

\* the except clause: status error, the message, last_seen, and the
\* disconnect of a session that was established
Failed(devs, oid, g, topo, published, trace, has_conn, msg, now) ==
    JobResult([devs EXCEPT ![oid].status = "error", ![oid].error = msg,
                           ![oid].last_seen = now],
              g, topo, published,
              IF has_conn THEN Append(trace, Event("disconnect", "")) ELSE trace,
              "error")

\* a job that builds a chain on whatever the planner returned
ConnectTraceChainAlways(conn) ==
    IF conn = "direct"
    THEN <<[op |-> "ConnectHandler", arg |-> "direct"]>>
    ELSE <<[op |-> "ConnectHandler", arg |-> "direct"],
           [op |-> "find_path_to_device",
            arg |-> IF conn = "no_path" THEN "none"
                    ELSE IF conn = "self_path" THEN "target" ELSE "path"],
           [op |-> "connect_with_jump_hosts", arg |-> "path"],
           [op |-> "ConnectHandler", arg |-> "jump"],
           [op |-> "disconnect", arg |-> "jump"],
           [op |-> "connect_with_jump_hosts",
            arg |-> IF conn = "proxy" THEN "session" ELSE "none"]>>

\* the session of the job: direct first, the planner after a failed direct
\* attempt, the SSH chain only on a planned path of at least two hops.  A
\* chain that fails behind its first jump host returns None after closing
\* that session ("chain_failed") or, when a step of it raises, from its
\* except clause that closes nothing ("chain_raised")
ConnectTrace(conn) ==
    <<Event("ConnectHandler", "direct")>> \o
    (CASE conn = "direct" -> <<>>
       [] conn = "proxy" ->
            <<Event("find_path_to_device", "path"), Event("connect_with_jump_hosts", "path"),
              Event("ConnectHandler", "jump"), Event("connect_with_jump_hosts", "session")>>
       [] conn = "chain_failed" ->
            <<Event("find_path_to_device", "path"), Event("connect_with_jump_hosts", "path"),
              Event("ConnectHandler", "jump"), Event("disconnect", "jump"),
              Event("connect_with_jump_hosts", "none")>>
       [] conn = "chain_raised" ->
            <<Event("find_path_to_device", "path"), Event("connect_with_jump_hosts", "path"),
              Event("ConnectHandler", "jump"), Event("connect_with_jump_hosts", "none")>>
       [] conn = "self_path" -> <<Event("find_path_to_device", "target")>>
       [] OTHER -> <<Event("find_path_to_device", "none")>>)

\* the SSH sessions a job leaves open when it returns: the one it opened,
\* directly or to the first jump host, unless a disconnect closed it
OpenSessions(conn, trace) ==
    LET opened == \/ conn = "direct"
                  \/ \E q \in 1..Len(trace) : trace[q] = Event("ConnectHandler", "jump")
        closed == \E q \in 1..Len(trace) : trace[q].op = "disconnect"
    IN  IF opened /\ ~closed THEN 1 ELSE 0

\* a job that reconciles its neighbors before it resolves the remote ids of
\* the snapshot and of the graph
PersistReconciledFirst(job, env, devs, idents, g, topo, now, seed_ip, links, used_proto, trace) ==
    LET oid == job.device_id
        ready == [devs EXCEPT ![oid].status = "ready", ![oid].last_seen = now]
        acc == Reconcile([devices |-> ready, new_devices_added |-> FALSE,
                          published |-> <<>>, raised |-> FALSE, steps |-> <<>>],
                         links, job, seed_ip, DefaultsOf(idents), env.broker_up, now)
        built == build_graph(seed_ip, links, acc.devices)
        topo1 == write_topology(topo, seed_ip, built.nodes, built.edges, BriefText, now)
        g1 == upsert_graph(g, seed_ip, links, acc.devices, now)
        persisted == trace \o <<Event("status", "ready"), Event("reconcile", seed_ip),
                                Event("write_topology", seed_ip), Event("upsert_graph", seed_ip)>>
        cascade == IF acc.new_devices_added /\ ~acc.raised
                   THEN trigger_discover_all(acc.devices, env.broker_up) ELSE <<>>
        base == IF acc.raised
                THEN Failed(acc.devices, oid, g1, topo1, acc.published, persisted, TRUE,
                            "broker connection failed", now)
                ELSE IF CascadeException(acc.new_devices_added, env.broker_up)
                THEN Failed(acc.devices, oid, g1, topo1, acc.published,
                            Append(persisted, Event("trigger_discover_all", "")), TRUE,
                            "broker connection failed", now)
                ELSE JobResult(acc.devices, g1, topo1, acc.published \o cascade,
                               IF acc.new_devices_added
                               THEN Append(persisted, Event("trigger_discover_all", ""))
                               ELSE persisted,
                               "ready")
    IN  [base EXCEPT !.seed_ip = seed_ip, !.links = links, !.used_proto = used_proto,
                     !.inventory = devs, !.steps = acc.steps,
                     !.new_devices_added = acc.new_devices_added,
                     !.cascade = cascade]

\* steps 7-10: persist the graph, reconcile the neighbors, cascade
Persist(job, env, devs, idents, g, topo, now, seed_ip, links, used_proto, trace) ==
    LET oid == job.device_id
        built == build_graph(seed_ip, links, devs)
        topo1 == write_topology(topo, seed_ip, built.nodes, built.edges, BriefText, now)
        g1 == upsert_graph(g, seed_ip, links, devs, now)
        ready == [devs EXCEPT ![oid].status = "ready", ![oid].last_seen = now]
        acc == Reconcile([devices |-> ready, new_devices_added |-> FALSE,
                          published |-> <<>>, raised |-> FALSE, steps |-> <<>>],
                         links, job, seed_ip, DefaultsOf(idents), env.broker_up, now)
        persisted == trace \o <<Event("write_topology", seed_ip), Event("upsert_graph", seed_ip),
                                Event("status", "ready"), Event("reconcile", seed_ip)>>
        cascade == IF acc.new_devices_added /\ ~acc.raised
                   THEN trigger_discover_all(acc.devices, env.broker_up) ELSE <<>>
        base == IF acc.raised
                THEN Failed(acc.devices, oid, g1, topo1, acc.published, persisted, TRUE,
                            "broker connection failed", now)
                ELSE IF CascadeException(acc.new_devices_added, env.broker_up)
                THEN Failed(acc.devices, oid, g1, topo1, acc.published,
                            Append(persisted, Event("trigger_discover_all", "")), TRUE,
                            "broker connection failed", now)
                ELSE JobResult(acc.devices, g1, topo1, acc.published \o cascade,
                               IF acc.new_devices_added
                               THEN Append(persisted, Event("trigger_discover_all", ""))
                               ELSE persisted,
                               "ready")
    IN  [base EXCEPT !.seed_ip = seed_ip, !.links = links, !.used_proto = used_proto,
                     !.inventory = devs, !.steps = acc.steps,
                     !.new_devices_added = acc.new_devices_added,
                     !.cascade = cascade]

\* a job that sends its last command framed whatever the session
SendOpBriefFramed(used_proxy, cmd) ==
    IF used_proxy /\ cmd # ShowBrief THEN "send_command_timing" ELSE "send_command"

\* how a show command is sent: timing-based through the chain, else framed
\* by the expected "#"
SendOp(used_proxy, cmd) ==
    IF used_proxy THEN "send_command_timing" ELSE "send_command"

\* steps 5-7: the show commands on the established session
RunCommands(job, env, devs, idents, g, topo, now, seed_ip) ==
    LET oid == job.device_id
        used_proxy == env.conn = "proxy"
        send(cmd) == Event(SendOp(used_proxy, cmd), cmd)
        t0 == ConnectTrace(env.conn)
        t1 == Append(t0, send(ShowCdp))
        fallback == NeedsFallback(env.cdp)
        t2 == IF fallback THEN Append(t1, send(ShowLldp)) ELSE t1
        links == IF fallback THEN ClearDeviceType(env.lldp) ELSE env.cdp
        t3 == Append(t2, send(ShowBrief))
    IN  IF env.fail = "cdp"
        THEN Failed(devs, oid, g, topo, <<>>, t1, TRUE, "command failed", now)
        ELSE IF fallback /\ env.fail = "lldp"
        THEN Failed(devs, oid, g, topo, <<>>, t2, TRUE, "command failed", now)
        ELSE IF env.fail = "brief"
        THEN Failed(devs, oid, g, topo, <<>>, t3, TRUE, "command failed", now)
        ELSE Persist(job, env, devs, idents, g, topo, now, seed_ip, links,
                     IF fallback THEN "lldp_fallback" ELSE "cdp",
                     Append(t3, Event("disconnect", "")))

do_discovery_job(job, env, devs, idents, g, topo, now) ==
    LET oid == job.device_id
    IN  IF oid \notin 1..Len(devs)
        THEN JobResult(devs, g, topo, <<>>, <<>>, "device missing")
        ELSE
        LET dev == devs[oid]
            scanning == [devs EXCEPT ![oid].status = "scanning", ![oid].last_seen = now]
            seed_ip == dev.host
        IN  IF Precheck(dev) = "needs_ip"
            THEN JobResult([scanning EXCEPT ![oid].status = "needs_ip"],
                           g, topo, <<>>, <<>>, "needs_ip")
            ELSE IF Precheck(dev) = "needs_creds"
            THEN JobResult([scanning EXCEPT ![oid].status = "needs_creds"],
                           g, topo, <<>>, <<>>, "needs_creds")
            ELSE IF env.conn \in {"no_path", "self_path"}
            THEN Failed(scanning, oid, g, topo, <<>>, ConnectTrace(env.conn), FALSE,
                        "Device unreachable", now)
            ELSE IF env.conn \in {"chain_failed", "chain_raised"}
            THEN Failed(scanning, oid, g, topo, <<>>, ConnectTrace(env.conn), FALSE,
                        "SSH chain connection failed", now)
            ELSE RunCommands(job, env, scanning, idents, g, topo, now, seed_ip)

(***************************************************************************)
(* The environment: what the devices answer and what the operator asks.    *)
(***************************************************************************)
\* the classifier's tag for the capabilities a neighbor advertises
ClassifiedAs(n) == IF n = "core-sw" THEN "layer3_switch" ELSE "unknown"

\* the remote port the i-th block of an output advertises
RemotePortAt == <<"Gi1/0/24", "", "Fa0/3">>

\* neighbor blocks as the parsers emit them, less their interfaces: one
\* name at two IPs, another name at one of them, at the first host and
\* without an IP, and an LLDP block whose system name strips to ""
Neighbors ==
    {[remote_sysname |-> nb[1], remote_mgmt_ip |-> nb[2], device_type |-> ClassifiedAs(nb[1])] :
        nb \in {<<"core-sw", "10.1.0.5">>, <<"core-sw", "10.1.0.6">>,
                <<"dist-1", "10.1.0.6">>, <<"dist-1", "10.0.0.1">>,
                <<"dist-1", None>>, <<"", None>>}}

Link(i, nb) ==
    [local_if |-> LocalIfs[i], remote_sysname |-> nb.remote_sysname,
     remote_port |-> RemotePortAt[i], remote_mgmt_ip |-> nb.remote_mgmt_ip,
     device_type |-> nb.device_type]

\* parsed command outputs: the i-th block is on the i-th local interface
Outputs ==
    UNION {{[i \in 1..n |-> Link(i, f[i])] : f \in [1..n -> Neighbors]} : n \in 0..MaxLinks}

\* what parse_cdp_cisco returns: a block without a Device ID is no link
CdpOutputs == {o \in Outputs : \A i \in 1..Len(o) : o[i].remote_sysname # ""}

\* hosts the worker reaches with a direct SSH connection; the others are
\* behind them
DirectHosts == {"10.0.0.1"}

\* one job's environment: how the session comes about, which command (if
\* any) raises, what CDP and LLDP parse to, whether the broker answers
Envs ==
    {[conn |-> c, fail |-> "none", cdp |-> <<>>, lldp |-> <<>>, broker_up |-> TRUE] :
        c \in {"no_path", "self_path", "chain_failed", "chain_raised"}}
    \cup {[conn |-> c, fail |-> f, cdp |-> <<>>, lldp |-> <<>>, broker_up |-> TRUE] :
        c \in {"direct", "proxy"}, f \in {"cdp", "lldp", "brief"}}
    \cup {[conn |-> c, fail |-> "none", cdp |-> o, lldp |-> <<>>, broker_up |-> b] :
        c \in {"direct", "proxy"}, o \in CdpOutputs \ {<<>>}, b \in BOOLEAN}
    \cup {[conn |-> c, fail |-> "none", cdp |-> <<>>, lldp |-> o, broker_up |-> b] :
        c \in {"direct", "proxy"}, o \in Outputs, b \in BOOLEAN}

\* a device the operator added with add_device
OperatorDevice(host, username, password) ==
    [host |-> host, display_name |-> None, platform |-> "cisco_ios",
     identity_id |-> None, username |-> username, password |-> password,
     status |-> IF Truthy(username) /\ Truthy(password) THEN "ready" ELSE "unknown",
     depth |-> 0, parent |-> None, device_type |-> None,
     alternate_ips |-> <<>>, interface_map |-> {},
     created_at |-> NoTime, last_seen |-> NoTime, error |-> None]

\* a device POST /discover created from a payload with a host
SchedulerDevice(host, username, password) ==
    [OperatorDevice(host, username, password) EXCEPT
        !.status = IF Truthy(username) /\ Truthy(password) THEN "ready" ELSE "unknown"]

DefaultIdentity ==
    [_id |-> "identity-1", name |-> "default", username |-> "admin",
     password |-> "secret", is_default |-> TRUE]

\* the payloads of POST /discover: depth, auto_recursive, max_depth
Payloads ==
    {[depth |-> 0, auto_recursive |-> TRUE, max_depth |-> 2],
     [depth |-> 1, auto_recursive |-> TRUE, max_depth |-> 1]}

NoJob == DiscoveryJob(0, 0, FALSE, 0)
NoConsumer == [phase |-> "none"]
NoClassifier == [phase |-> "none"]
NoPlanner == [phase |-> "none"]
\* a part of the system that is not running in a behaviour
Idle == [phase |-> "none"]
NoEnv == [conn |-> "none", fail |-> "none", cdp |-> <<>>, lldp |-> <<>>, broker_up |-> TRUE]

(***************************************************************************)
(* The state machine.                                                      *)
(***************************************************************************)
Init ==
    /\ devices = <<OperatorDevice("10.0.0.1", "admin", "secret"),
                   SchedulerDevice(" ", None, None),
                   OperatorDevice("10.2.0.9", None, None)>>
    /\ identities \in {<<DefaultIdentity>>, <<[DefaultIdentity EXCEPT !.is_default = FALSE]>>}
    /\ graph_nodes = {}
    /\ graph_links = {}
    /\ topology = <<>>
    /\ queue = <<>>
    /\ clock = 0
    /\ requests = 0
    /\ last = [job |-> NoJob, env |-> NoEnv,
               result |-> JobResult(<<>>, [nodes |-> {}, links |-> {}], <<>>, <<>>, <<>>, "none"),
               pre_devices |-> <<>>, pre_nodes |-> {}, pre_links |-> {},
               pre_topology |-> <<>>,
               prev_job |-> NoJob, prev_env |-> NoEnv, prev_outcome |-> "none"]
    /\ consumer = NoConsumer
    /\ classifier = NoClassifier
    /\ planner = NoPlanner
    /\ broker = Idle
    /\ workers = Idle
    /\ web = Idle
    /\ network = Idle
    /\ reachability = Idle
    /\ chain = Idle

\* POST /discover with a device_id
Discover(d, payload) ==
    /\ requests < MaxRequests
    /\ d \in 1..Len(devices)
    /\ requests' = requests + 1
    /\ queue' = Append(queue, DiscoveryJob(d, payload.depth, payload.auto_recursive,
                                           payload.max_depth))
    /\ UNCHANGED <<network, reachability, devices, identities, graph_nodes, graph_links, topology, clock, last,
                   consumer, classifier, planner,
                   broker, workers, web, chain>>

\* POST /discover_all
DiscoverAll ==
    /\ requests < MaxRequests
    /\ CascadeJobs(devices, 1) # <<>>
    /\ requests' = requests + 1
    /\ queue' = queue \o CascadeJobs(devices, 1)
    /\ UNCHANGED <<network, reachability, devices, identities, graph_nodes, graph_links, topology, clock, last,
                   consumer, classifier, planner,
                   broker, workers, web, chain>>

\* the job gets as far as the connection attempt
Connects(job, devs) ==
    /\ job.device_id \in 1..Len(devs)
    /\ Precheck(devs[job.device_id]) = None

\* the consumer callback: one message, do_discovery_job, then the ack.  A
\* session is direct to a host of DirectHosts and chained to any other; the
\* broker's state shows only in a job that publishes
Consume(env) ==
    /\ queue # <<>>
    /\ clock < MaxJobs
    /\ LET job == Head(queue)
           g == [nodes |-> graph_nodes, links |-> graph_links]
           host == IF job.device_id \in 1..Len(devices)
                   THEN devices[job.device_id].host ELSE None
       IN  /\ IF Connects(job, devices) THEN env \in Envs ELSE env = NoEnv
           /\ env.conn = "direct" => host \in DirectHosts
           /\ env.conn \in {"proxy", "chain_failed", "chain_raised"} => host \notin DirectHosts
           /\ env.broker_up \/
                do_discovery_job(job, [env EXCEPT !.broker_up = TRUE], devices, identities,
                                 g, topology, clock + 1).published # <<>>
           /\ last' = [job |-> job, env |-> env,
                       result |-> do_discovery_job(job, env, devices, identities, g,
                                                   topology, clock + 1),
                       pre_devices |-> devices, pre_nodes |-> graph_nodes,
                       pre_links |-> graph_links, pre_topology |-> topology,
                       prev_job |-> last.job, prev_env |-> last.env,
                       prev_outcome |-> last.result.outcome]
           /\ clock' = clock + 1
           /\ devices' = last'.result.devices
           /\ graph_nodes' = last'.result.graph.nodes
           /\ graph_links' = last'.result.graph.links
           /\ topology' = last'.result.topology
           /\ queue' = Tail(queue) \o last'.result.published
    /\ UNCHANGED <<network, reachability, identities, requests, consumer, classifier, planner,
                   broker, workers, web, chain>>

Next ==
    \/ \E d \in 1..Len(devices), payload \in Payloads : Discover(d, payload)
    \/ DiscoverAll
    \/ \E env \in Envs \cup {NoEnv} : Consume(env)

Spec == Init /\ [][Next]_vars

(***************************************************************************)
(* The consumer loop: the broker hands one message at a time to the        *)
(* callback, which decodes it, runs the job and acknowledges; an exception *)
(* that leaves the callback ends start_consuming and the loop reconnects.  *)
(***************************************************************************)
MaxMessages == 2

\* a message body: the JSON value's kind, its "type", the text of its
\* "device_id" ("oid" for the id of a document, None when the key is
\* absent) and, for a well-formed discovery job, the job
Message(json, type, id_text, job) ==
    [json |-> json, type |-> type, id_text |-> id_text, job |-> job]

\* the messages a scheduler or a cascade publishes
Published(jobs) == [i \in 1..Len(jobs) |-> Message("object", "discovery", "oid", jobs[i])]

\* bodies found on the discovery queue: jobs for a device with credentials,
\* for one without and for a record that is gone, a job with an id that is
\* no document id, a job without device_id, another type, a JSON array
Bodies ==
    {Message("object", "discovery", "oid", DiscoveryJob(1, 0, TRUE, 2)),
     Message("object", "discovery", "oid", DiscoveryJob(3, 0, FALSE, 3)),
     Message("object", "discovery", "oid", DiscoveryJob(9, 0, FALSE, 3)),
     Message("object", "discovery", "not-an-id", NoJob),
     Message("object", "discovery", None, NoJob),
     Message("object", "ping", None, NoJob),
     Message("array", None, None, NoJob)}

\* the callback raises: job.get on a body that is no object, job["device_id"]
\* on a job without the key, ObjectId on a text that is no document id
Raises(m) ==
    \/ m.json # "object"
    \/ m.type = "discovery" /\ m.id_text # "oid"

\* a callback that acknowledges before it runs the job
CallbackLogAckFirst(m, result) ==
    IF m.type # "discovery"
    THEN <<[op |-> "cb", arg |-> m.type], [op |-> "basic_ack", arg |-> ""]>>
    ELSE <<[op |-> "cb", arg |-> m.type], [op |-> "basic_ack", arg |-> ""],
           [op |-> "do_discovery_job", arg |-> "call"]>>
         \o result.trace
         \o [i \in 1..Len(result.published) |-> [op |-> "basic_publish", arg |-> ""]]
         \o <<[op |-> "do_discovery_job", arg |-> "return"]>>

\* what a callback that does not raise does, in order: the job with its
\* store writes and its enqueues when the type is "discovery", then the ack
CallbackLog(m, result) ==
    IF m.type # "discovery"
    THEN <<Event("cb", m.type), Event("basic_ack", "")>>
    ELSE <<Event("cb", m.type), Event("do_discovery_job", "call")>>
         \o result.trace
         \o [i \in 1..Len(result.published) |-> Event("basic_publish", "")]
         \o <<Event("do_discovery_job", "return"), Event("basic_ack", "")>>

\* the environments of the jobs the consumer runs: an unreachable device, a
\* failing chain, a failing command, and CDP outputs of at most one neighbor
ConsumerEnvs ==
    {env \in Envs : /\ env.lldp = <<>>
                    /\ Len(env.cdp) <= 1
                    /\ env.fail \in {"none", "brief"}
                    /\ env.conn # "self_path"}

\* the store and the queue as a callback finds them
StoreNow ==
    [devices |-> devices, graph_nodes |-> graph_nodes, graph_links |-> graph_links,
     topology |-> topology, queue |-> queue]

InitConsumer ==
    /\ devices = <<OperatorDevice("10.0.0.1", "admin", "secret"),
                   SchedulerDevice(" ", None, None),
                   OperatorDevice("10.2.0.9", None, None)>>
    /\ identities = <<DefaultIdentity>>
    /\ graph_nodes = {}
    /\ graph_links = {}
    /\ topology = <<>>
    /\ queue \in UNION {[1..n -> Bodies] : n \in 1..MaxMessages}
    /\ clock = 0
    /\ requests = 0
    /\ last = [job |-> NoJob, env |-> NoEnv,
               result |-> JobResult(<<>>, [nodes |-> {}, links |-> {}], <<>>, <<>>, <<>>, "none"),
               pre_devices |-> <<>>, pre_nodes |-> {}, pre_links |-> {},
               pre_topology |-> <<>>,
               prev_job |-> NoJob, prev_env |-> NoEnv, prev_outcome |-> "none"]
    /\ consumer = [phase |-> "waiting", unacked |-> <<>>, settled |-> "none", log |-> <<>>,
                   message |-> Message(None, None, None, NoJob), pre |-> StoreNow]
    /\ classifier = NoClassifier
    /\ planner = NoPlanner
    /\ broker = Idle
    /\ workers = Idle
    /\ web = Idle
    /\ network = Idle
    /\ reachability = Idle
    /\ chain = Idle

\* basic_consume: the broker hands the head of the queue to the callback;
\* the connection dispatches the next message when the callback returned
Deliver ==
    /\ consumer.phase = "waiting"
    /\ queue # <<>>
    /\ clock < MaxJobs
    /\ consumer' = [consumer EXCEPT !.phase = "callback", !.unacked = <<Head(queue)>>]
    /\ queue' = Tail(queue)
    /\ UNCHANGED <<network, reachability, devices, identities, graph_nodes, graph_links, topology, clock, requests,
                   last, classifier, planner,
                   broker, workers, web, chain>>

\* cb: json.loads, do_discovery_job for a discovery job, basic_ack; an
\* exception leaves it before the ack
Callback(env) ==
    /\ consumer.phase = "callback"
    /\ LET m == Head(consumer.unacked)
           job == m.job
           g == [nodes |-> graph_nodes, links |-> graph_links]
           host == IF job.device_id \in 1..Len(devices)
                   THEN devices[job.device_id].host ELSE None
           runs == ~Raises(m) /\ m.type = "discovery"
           result == do_discovery_job(job, env, devices, identities, g, topology, clock + 1)
       IN  /\ IF runs /\ Connects(job, devices) THEN env \in ConsumerEnvs ELSE env = NoEnv
           /\ env.conn = "direct" => host \in DirectHosts
           /\ env.conn \in {"proxy", "chain_failed", "chain_raised"} => host \notin DirectHosts
           /\ env.broker_up \/
                do_discovery_job(job, [env EXCEPT !.broker_up = TRUE], devices, identities,
                                 g, topology, clock + 1).published # <<>>
           /\ IF Raises(m)
              THEN /\ consumer' = [consumer EXCEPT !.phase = "crashed", !.message = m,
                                                   !.log = <<Event("cb", "raise")>>,
                                                   !.pre = StoreNow]
                   /\ UNCHANGED <<network, reachability, devices, graph_nodes, graph_links, topology, queue, clock,
                                  last>>
              ELSE IF ~runs
              THEN /\ consumer' = [consumer EXCEPT !.phase = "waiting", !.unacked = <<>>,
                                                   !.settled = "ack", !.message = m,
                                                   !.log = CallbackLog(m, last.result),
                                                   !.pre = StoreNow]
                   /\ UNCHANGED <<network, reachability, devices, graph_nodes, graph_links, topology, queue, clock,
                                  last>>
              ELSE /\ last' = [job |-> job, env |-> env, result |-> result,
                               pre_devices |-> devices, pre_nodes |-> graph_nodes,
                               pre_links |-> graph_links, pre_topology |-> topology,
                               prev_job |-> last.job, prev_env |-> last.env,
                               prev_outcome |-> last.result.outcome]
                   /\ clock' = clock + 1
                   /\ devices' = result.devices
                   /\ graph_nodes' = result.graph.nodes
                   /\ graph_links' = result.graph.links
                   /\ topology' = result.topology
                   /\ queue' = queue \o Published(result.published)
                   /\ consumer' = [consumer EXCEPT !.phase = "waiting", !.unacked = <<>>,
                                                   !.settled = "ack", !.message = m,
                                                   !.log = CallbackLog(m, result),
                                                   !.pre = StoreNow]
    /\ UNCHANGED <<network, reachability, identities, requests, classifier, planner,
                   broker, workers, web, chain>>

\* consume's except Exception: the loop sleeps and connects again; the
\* broker puts the message that was not acknowledged back on the queue
Restart ==
    /\ consumer.phase = "crashed"
    /\ queue' = consumer.unacked \o queue
    /\ consumer' = [consumer EXCEPT !.phase = "waiting", !.unacked = <<>>,
                                    !.settled = "requeue"]
    /\ UNCHANGED <<network, reachability, devices, identities, graph_nodes, graph_links, topology, clock, requests,
                   last, classifier, planner,
                   broker, workers, web, chain>>

NextConsumer ==
    \/ Deliver
    \/ \E env \in ConsumerEnvs \cup {NoEnv} : Callback(env)
    \/ Restart

\* the loop of consume runs for as long as the worker does
SpecConsumer == InitConsumer /\ [][NextConsumer]_vars /\ WF_vars(NextConsumer)

(***************************************************************************)
(* The path planner, router_client.find_path_to_device, as a function of   *)
(* the edges of graph_links in the order find({}) yields them, the result  *)
(* of the connectivity test and the target.                                *)
(***************************************************************************)
MaxEdges == 3

\* no path: find_path_to_device returns None
NoPath == <<>>

\* sorted(ips)
RECURSIVE Sorted(_)
Sorted(ips) ==
    IF ips = {} THEN <<>>
    ELSE LET m == CHOOSE x \in ips : \A y \in ips : StrLeq(x, y)
         IN  <<m>> \o Sorted(ips \ {m})

\* graph[n] of the adjacency lists: for each link in order, b is appended
\* to graph[a] and a to graph[b]
RECURSIVE Adjacent(_, _)
Adjacent(links, n) ==
    IF links = <<>> THEN <<>>
    ELSE (IF Head(links).a = n THEN <<Head(links).b>> ELSE <<>>)
         \o (IF Head(links).b = n THEN <<Head(links).a>> ELSE <<>>)
         \o Adjacent(Tail(links), n)

\* a planner that takes a later path of the same length
BetterOrEqual(new_path, best_path) ==
    best_path = <<>> \/ Len(new_path) <= Len(best_path)

\* best_path is None or len(new_path) < len(best_path)
Better(new_path, best_path) ==
    best_path = NoPath \/ Len(new_path) < Len(best_path)

\* for neighbor in graph[current]: skip the visited, mark the others, stop
\* at the target, queue the rest
RECURSIVE ScanNeighbors(_, _, _, _)
ScanNeighbors(nbrs, path, target_ip, st) ==
    IF nbrs = <<>> THEN st
    ELSE LET neighbor == Head(nbrs)
             new_path == Append(path, neighbor)
         IN  IF neighbor \in st.visited
             THEN ScanNeighbors(Tail(nbrs), path, target_ip, st)
             ELSE IF neighbor = target_ip
             THEN [st EXCEPT !.visited = @ \cup {neighbor},
                             !.best_path = IF Better(new_path, @) THEN new_path ELSE @]
             ELSE ScanNeighbors(Tail(nbrs), path, target_ip,
                                [st EXCEPT !.visited = @ \cup {neighbor},
                                           !.queue = Append(@, <<neighbor, new_path>>)])

\* while queue: pop the head and scan its neighbors
RECURSIVE BreadthFirst(_, _, _)
BreadthFirst(links, target_ip, st) ==
    IF st.queue = <<>> THEN st
    ELSE LET current == Head(st.queue)[1]
             path == Head(st.queue)[2]
         IN  BreadthFirst(links, target_ip,
                          ScanNeighbors(Adjacent(links, current), path, target_ip,
                                        [st EXCEPT !.queue = Tail(@)]))

\* for start_ip in sorted(directly_reachable_ips)
RECURSIVE FromStarts(_, _, _, _)
FromStarts(starts, links, target_ip, best_path) ==
    IF starts = <<>> THEN best_path
    ELSE IF Head(starts) = target_ip THEN <<target_ip>>
    ELSE FromStarts(Tail(starts), links, target_ip,
                    BreadthFirst(links, target_ip,
                                 [queue |-> <<<<Head(starts), <<Head(starts)>>>>>>,
                                  visited |-> {Head(starts)},
                                  best_path |-> best_path]).best_path)

find_path_to_device(target_ip, reachable_devices, links, directly_reachable_ips) ==
    IF reachable_devices = {} THEN NoPath
    ELSE IF directly_reachable_ips = {} THEN NoPath
    ELSE FromStarts(Sorted(directly_reachable_ips), links, target_ip, NoPath)

\* the node pairs an edge of graph_links can join, a <= b
EdgePairs == {pr \in IPs \X IPs : StrLeq(pr[1], pr[2])}

\* the edges of graph_links in the order of their insertion, one per pair
EdgeLists ==
    {[i \in 1..Len(f) |-> [a |-> f[i][1], b |-> f[i][2]]] :
        f \in {g \in UNION {[1..n -> EdgePairs] : n \in 0..MaxEdges} :
                  \A i, j \in 1..Len(g) : i # j => g[i] # g[j]}}

\* a call of the planner by a job: the job's device is scanning, so the
\* devices in status ready or scanning are the target and those that answer
InitPlanner ==
    /\ devices = <<OperatorDevice("10.0.0.1", "admin", "secret"),
                   SchedulerDevice(" ", None, None),
                   OperatorDevice("10.2.0.9", None, None)>>
    /\ identities = <<DefaultIdentity>>
    /\ graph_nodes = {}
    /\ graph_links = {}
    /\ topology = <<>>
    /\ queue = <<>>
    /\ clock = 0
    /\ requests = 0
    /\ last = [job |-> NoJob, env |-> NoEnv,
               result |-> JobResult(<<>>, [nodes |-> {}, links |-> {}], <<>>, <<>>, <<>>, "none"),
               pre_devices |-> <<>>, pre_nodes |-> {}, pre_links |-> {},
               pre_topology |-> <<>>,
               prev_job |-> NoJob, prev_env |-> NoEnv, prev_outcome |-> "none"]
    /\ consumer = NoConsumer
    /\ classifier = NoClassifier
    /\ planner \in {[phase |-> "call", target_ip |-> t, links |-> l,
                      directly_reachable_ips |-> d, reachable_devices |-> d \cup {t},
                      path |-> NoPath] :
                        t \in IPs, l \in EdgeLists, d \in SUBSET IPs}
    /\ broker = Idle
    /\ workers = Idle
    /\ web = Idle
    /\ network = Idle
    /\ reachability = Idle
    /\ chain = Idle

FindPath ==
    /\ planner.phase = "call"
    /\ planner' = [planner EXCEPT
                      !.phase = "returned",
                      !.path = find_path_to_device(planner.target_ip, planner.reachable_devices,
                                                   planner.links,
                                                   planner.directly_reachable_ips)]
    /\ UNCHANGED <<network, reachability, devices, identities, graph_nodes, graph_links, topology, queue, clock,
                   requests, last, consumer, classifier,
                   broker, workers, web, chain>>

NextPlanner == FindPath

SpecPlanner == InitPlanner /\ [][NextPlanner]_vars

(***************************************************************************)
(* The capability classifier, parsers.classify_from_cdp_caps, on           *)
(* capability strings given character by character.                        *)
(***************************************************************************)
MaxTokens == 2

\* the characters of a word of a capability string
Chars(w) ==
    CASE w = "Router" -> <<"R", "o", "u", "t", "e", "r">>
      [] w = "router" -> <<"r", "o", "u", "t", "e", "r">>
      [] w = "ROUTER" -> <<"R", "O", "U", "T", "E", "R">>
      [] w = "Switch" -> <<"S", "w", "i", "t", "c", "h">>
      [] w = "SWITCH" -> <<"S", "W", "I", "T", "C", "H">>
      [] w = "Bridge" -> <<"B", "r", "i", "d", "g", "e">>
      [] w = "bridge" -> <<"b", "r", "i", "d", "g", "e">>
      [] w = "Source-Route-Bridge" -> <<"S", "o", "u", "r", "c", "e", "-", "R", "o", "u", "t", "e", "-", "B", "r", "i", "d", "g", "e">>
      [] w = "source-route-bridge" -> <<"s", "o", "u", "r", "c", "e", "-", "r", "o", "u", "t", "e", "-", "b", "r", "i", "d", "g", "e">>
      [] w = "Trans-Bridge" -> <<"T", "r", "a", "n", "s", "-", "B", "r", "i", "d", "g", "e">>
      [] w = "IGMP" -> <<"I", "G", "M", "P">>
      [] w = "Host" -> <<"H", "o", "s", "t">>
      [] w = "Station" -> <<"S", "t", "a", "t", "i", "o", "n">>
      [] w = "WLAN" -> <<"W", "L", "A", "N">>
      [] w = "wireless" -> <<"w", "i", "r", "e", "l", "e", "s", "s">>
      [] w = "Phone" -> <<"P", "h", "o", "n", "e">>
      [] w = "R" -> <<"R">>
      [] w = "r" -> <<"r">>
      [] w = "B" -> <<"B">>
      [] w = "S" -> <<"S">>
      [] w = "H" -> <<"H">>
      [] w = "W" -> <<"W">>
      [] w = "P" -> <<"P">>
      [] OTHER -> <<>>

\* the words capability strings are made of here
Words == {"Router", "router", "ROUTER", "Switch", "SWITCH", "Bridge", "bridge", "Source-Route-Bridge", "source-route-bridge", "Trans-Bridge", "IGMP", "Host", "Station", "WLAN", "wireless", "Phone", "R", "r", "B", "S", "H", "W", "P"}

UpperCase ==
    <<"A", "B", "C", "D", "E", "F", "G", "H", "I", "J", "K", "L", "M",
      "N", "O", "P", "Q", "R", "S", "T", "U", "V", "W", "X", "Y", "Z">>

LowerCase ==
    <<"a", "b", "c", "d", "e", "f", "g", "h", "i", "j", "k", "l", "m",
      "n", "o", "p", "q", "r", "s", "t", "u", "v", "w", "x", "y", "z">>

\* str.lower, character by character
Lower(t) ==
    [i \in 1..Len(t) |->
        IF \E k \in 1..26 : UpperCase[k] = t[i]
        THEN LowerCase[CHOOSE k \in 1..26 : UpperCase[k] = t[i]]
        ELSE t[i]]

\* caps_text.replace('(', ' ').replace(')', ' ').replace('/', ' ')
Replaced(txt) == [i \in 1..Len(txt) |-> IF txt[i] \in {"(", ")", "/"} THEN " " ELSE txt[i]]

\* str.strip
RECURSIVE StripText(_)
StripText(txt) ==
    IF txt = <<>> THEN txt
    ELSE IF Head(txt) = " " THEN StripText(Tail(txt))
    ELSE IF txt[Len(txt)] = " " THEN StripText(SubSeq(txt, 1, Len(txt) - 1))
    ELSE txt

\* re.split(r"[\s,]+", txt): the pieces between runs of whitespace and
\* commas, an empty piece where the text begins or ends with a run
RECURSIVE Split(_, _, _)
Split(txt, piece, in_run) ==
    IF txt = <<>> THEN <<piece>>
    ELSE IF Head(txt) \in {" ", ","}
    THEN IF in_run THEN Split(Tail(txt), piece, TRUE)
         ELSE <<piece>> \o Split(Tail(txt), <<>>, TRUE)
    ELSE Split(Tail(txt), Append(piece, Head(txt)), FALSE)

\* str.startswith
StartsWith(t, prefix) ==
    Len(t) >= Len(prefix) /\ SubSeq(t, 1, Len(prefix)) = prefix

\* a classifier that takes every word ending in bridge for a switch
IsBridgeSuffix(t) ==
    Len(t) >= 6 /\ SubSeq(t, Len(t) - 5, Len(t)) = <<"b", "r", "i", "d", "g", "e">>

\* t == 'bridge'
IsBridge(t) == t = <<"b", "r", "i", "d", "g", "e">>

\* what one token adds to the set norm
Normalized(raw) ==
    LET t == Lower(StripText(raw))
    IN  IF t = <<>> THEN {}
        ELSE IF Len(t) = 1
        THEN IF t = <<"r">> THEN {"router"}
             ELSE IF t \in {<<"b">>, <<"s">>} THEN {"switch"}
             ELSE IF t = <<"h">> THEN {"end"}
             ELSE IF t = <<"w">> THEN {"ap"}
             ELSE {}
        ELSE IF StartsWith(t, <<"r", "o", "u", "t", "e", "r">>) THEN {"router"}
        ELSE IF StartsWith(t, <<"s", "w", "i", "t", "c", "h">>) THEN {"switch"}
        ELSE IF IsBridge(t) THEN {"switch"}
        ELSE IF \/ StartsWith(t, <<"h", "o", "s", "t">>)
                \/ StartsWith(t, <<"s", "t", "a", "t", "i", "o", "n">>)
        THEN {"end"}
        ELSE IF \/ StartsWith(t, <<"w", "l", "a", "n">>)
                \/ StartsWith(t, <<"w", "i", "r", "e", "l", "e", "s", "s">>)
        THEN {"ap"}
        ELSE {}

\* the decision on the set norm
Decide(norm) ==
    IF "router" \in norm /\ "switch" \in norm THEN "layer3_switch"
    ELSE IF "router" \in norm THEN "router"
    ELSE IF "switch" \in norm THEN "switch"
    ELSE IF "ap" \in norm THEN "ap"
    ELSE IF "end" \in norm THEN "end"
    ELSE "unknown"

classify_from_cdp_caps(caps_text) ==
    IF caps_text = <<>> THEN "unknown"
    ELSE LET tokens == Split(StripText(Replaced(caps_text)), <<>>, FALSE)
         IN  Decide(UNION {Normalized(tokens[i]) : i \in 1..Len(tokens)})

\* what stands between two words, and around the string
Separators == {<<" ">>, <<" ", " ">>, <<",">>, <<",", " ">>, <<"/">>}
Margins == {<<<<>>, <<>>>>, <<<<" ">>, <<" ">>>>, <<<<"(">>, <<")">>>>}

\* the capability string of words ws, separated by sep, within margin
RECURSIVE JoinWords(_, _)
JoinWords(ws, sep) ==
    IF ws = <<>> THEN <<>>
    ELSE IF Len(ws) = 1 THEN Chars(ws[1])
    ELSE Chars(ws[1]) \o sep \o JoinWords(Tail(ws), sep)

CapsText(ws, sep, margin) == margin[1] \o JoinWords(ws, sep) \o margin[2]

InitClassifier ==
    /\ devices = <<OperatorDevice("10.0.0.1", "admin", "secret"),
                   SchedulerDevice(" ", None, None),
                   OperatorDevice("10.2.0.9", None, None)>>
    /\ identities = <<DefaultIdentity>>
    /\ graph_nodes = {}
    /\ graph_links = {}
    /\ topology = <<>>
    /\ queue = <<>>
    /\ clock = 0
    /\ requests = 0
    /\ last = [job |-> NoJob, env |-> NoEnv,
               result |-> JobResult(<<>>, [nodes |-> {}, links |-> {}], <<>>, <<>>, <<>>, "none"),
               pre_devices |-> <<>>, pre_nodes |-> {}, pre_links |-> {},
               pre_topology |-> <<>>,
               prev_job |-> NoJob, prev_env |-> NoEnv, prev_outcome |-> "none"]
    /\ consumer = NoConsumer
    /\ planner = NoPlanner
    /\ classifier \in {[phase |-> "call", words |-> ws, sep |-> sep, margin |-> mg,
                         caps_text |-> CapsText(ws, sep, mg), device_type |-> None] :
                           ws \in UNION {[1..n -> Words] : n \in 0..MaxTokens},
                           sep \in Separators, mg \in Margins}
    /\ broker = Idle
    /\ workers = Idle
    /\ web = Idle
    /\ network = Idle
    /\ reachability = Idle
    /\ chain = Idle

\* the parsers hand the text after "Capabilities:" to the classifier
Classify ==
    /\ classifier.phase = "call"
    /\ classifier' = [classifier EXCEPT
                         !.phase = "returned",
                         !.device_type = classify_from_cdp_caps(classifier.caps_text)]
    /\ UNCHANGED <<network, reachability, devices, identities, graph_nodes, graph_links, topology, queue, clock,
                   requests, last, consumer, planner,
                   broker, workers, web, chain>>

NextClassifier == Classify

SpecClassifier == InitClassifier /\ [][NextClassifier]_vars

(***************************************************************************)
(* The broker connection: connect_to_rabbitmq as the consumer loop and the *)
(* two publishers of a job call it, one attempt at a time.                 *)
(***************************************************************************)
MaxSleeps == 8

\* a backoff that doubles without a cap
NextDelayUncapped(delay) == delay * 2

\* min(delay * 2, 30)
NextDelay(delay) == IF delay * 2 < 30 THEN delay * 2 ELSE 30

\* the entry of connect_to_rabbitmq with the arguments of the call on each
\* path: max_retries = 0 (no limit), initial_delay = 2 from the consumer,
\* max_retries = 3, initial_delay = 1 from a publisher
Connecting(path, slept) ==
    [phase |-> "connecting", path |-> path,
     max_retries |-> IF path = "consume" THEN 0 ELSE 3,
     delay |-> IF path = "consume" THEN 2 ELSE 1,
     attempt |-> 0, waits |-> <<>>, slept |-> slept]

\* no job handled yet
NoLast ==
    [job |-> NoJob, env |-> NoEnv,
     result |-> JobResult(<<>>, [nodes |-> {}, links |-> {}], <<>>, <<>>, <<>>, "none"),
     pre_devices |-> <<>>, pre_nodes |-> {}, pre_links |-> {},
     pre_topology |-> <<>>,
     prev_job |-> NoJob, prev_env |-> NoEnv, prev_outcome |-> "none"]

InitBroker ==
    /\ devices = <<OperatorDevice("10.0.0.1", "admin", "secret"),
                   SchedulerDevice(" ", None, None),
                   OperatorDevice("10.2.0.9", None, None)>>
    /\ identities = <<DefaultIdentity>>
    /\ graph_nodes = {}
    /\ graph_links = {}
    /\ topology = <<>>
    /\ queue = <<>>
    /\ clock = 0
    /\ requests = 0
    /\ last = NoLast
    /\ consumer = NoConsumer
    /\ classifier = NoClassifier
    /\ planner = NoPlanner
    /\ workers = Idle
    /\ web = Idle
    /\ network = Idle
    /\ reachability = Idle
    /\ chain = Idle
    /\ broker \in {Connecting(path, <<>>) :
                      path \in {"consume", "enqueue_discovery", "trigger_discover_all"}}

\* one turn of the while loop: the attempt connects, or fails for the last
\* time and raises, or fails and sleeps before the next
Attempt(ok) ==
    /\ broker.phase = "connecting"
    /\ Len(broker.slept) < MaxSleeps
    /\ LET attempt == broker.attempt + 1
       IN  broker' =
             IF ok THEN [broker EXCEPT !.phase = "connected", !.attempt = attempt]
             ELSE IF broker.max_retries > 0 /\ attempt >= broker.max_retries
             THEN [broker EXCEPT !.phase = "raised", !.attempt = attempt]
             ELSE [broker EXCEPT !.attempt = attempt,
                                 !.waits = Append(@, broker.delay),
                                 !.slept = Append(@, broker.delay),
                                 !.delay = NextDelay(@)]
    /\ UNCHANGED <<network, reachability, devices, identities, graph_nodes, graph_links, topology, queue, clock, requests, last,
                   consumer, classifier, planner, workers, web, chain>>

\* the consumer loses its connection: it sleeps 5 s and connects again
ConnectionLost ==
    /\ broker.phase = "connected"
    /\ broker.path = "consume"
    /\ Len(broker.slept) < MaxSleeps
    /\ broker' = Connecting("consume", Append(broker.slept, 5))
    /\ UNCHANGED <<network, reachability, devices, identities, graph_nodes, graph_links, topology, queue, clock, requests, last,
                   consumer, classifier, planner, workers, web, chain>>

NextBroker ==
    \/ \E ok \in BOOLEAN : Attempt(ok)
    \/ ConnectionLost

SpecBroker == InitBroker /\ [][NextBroker]_vars

(***************************************************************************)
(* Two workers.  Each runs the part of do_discovery_job that follows the   *)
(* show commands on one neighbor block, one store operation at a time; the *)
(* operations of the two workers interleave.                               *)
(***************************************************************************)
\* the result of a find_one: empty, or the document and its place
Found(devs, i) == IF i = 0 THEN <<>> ELSE <<[n |-> i, doc |-> devs[i]]>>

\* a worker about to persist what its job observed
Observed(job, seed_ip, link) ==
    [pc |-> "write_topology", job |-> job, seed_ip |-> seed_ip, link |-> link,
     device_by_ip |-> <<>>, device_by_name |-> <<>>, remote_id |-> None,
     dflt |-> DefaultsOf(<<>>), existing |-> <<>>, existing_by_name |-> <<>>,
     new_devices_added |-> FALSE, new_id |-> 0]

\* the inventories the two jobs start from: both seeds set to scanning, a
\* neighbor an earlier job inserted three hops away known or not
WorkerInventories ==
    LET seeds == <<[OperatorDevice("10.0.0.1", "admin", "secret") EXCEPT
                        !.status = "scanning", !.last_seen = 1],
                   [OperatorDevice("10.2.0.9", "admin", "secret") EXCEPT
                        !.status = "scanning", !.last_seen = 1, !.depth = 1]>>
        known ==
            [NewDevice("10.1.0.5", "core-sw", "layer3_switch", {<<"10.1.0.5", "Gi1/0/24">>},
                       DefaultsOf(<<DefaultIdentity>>), 2, "10.2.0.9", 1)
               EXCEPT !.status = "needs_creds"]
    IN  {seeds, Append(seeds, known)}

\* the neighbor blocks a job can have parsed; the known neighbor answers at
\* three addresses
WorkerNeighbors ==
    {nb \in Neighbors : nb.remote_sysname # ""}
    \cup {[remote_sysname |-> "core-sw", remote_mgmt_ip |-> "10.1.0.7",
           device_type |-> ClassifiedAs("core-sw")]}

InitWorkers ==
    /\ devices \in WorkerInventories
    /\ identities = <<DefaultIdentity>>
    /\ graph_nodes = {}
    /\ graph_links = {}
    /\ topology = <<>>
    /\ queue = <<>>
    /\ clock = 1
    /\ requests = 0
    /\ last = NoLast
    /\ consumer = NoConsumer
    /\ classifier = NoClassifier
    /\ planner = NoPlanner
    /\ broker = Idle
    /\ web = Idle
    /\ network = Idle
    /\ reachability = Idle
    /\ chain = Idle
    /\ \E nb1 \in WorkerNeighbors, nb2 \in WorkerNeighbors :
          workers = [phase |-> "running", start |-> devices,
                     w |-> <<Observed(DiscoveryJob(1, 0, TRUE, 2), "10.0.0.1", Link(1, nb1)),
                             Observed(DiscoveryJob(2, 1, FALSE, 3), "10.2.0.9", Link(3, nb2))>>]

\* where a worker goes when its neighbor loop is over
AfterLoop(new_devices_added) == IF new_devices_added THEN "cascade" ELSE "done"

\* build_graph and write_topology
WriteTopology(w) ==
    LET W == workers.w[w]
        built == build_graph(W.seed_ip, <<W.link>>, devices)
    IN  /\ workers.phase = "running"
        /\ W.pc = "write_topology"
        /\ topology' = write_topology(topology, W.seed_ip, built.nodes, built.edges,
                                      BriefText, clock)
        /\ workers' = [workers EXCEPT !.w[w].pc =
                          IF Truthy(W.link.remote_mgmt_ip) THEN "device_by_ip"
                          ELSE IF Truthy(W.link.remote_sysname) THEN "seed_node"
                          ELSE "ready",
                                      !.w[w].remote_id =
                          IF Truthy(W.link.remote_mgmt_ip) THEN None
                          ELSE IF Truthy(W.link.remote_sysname)
                          THEN NameId(W.link.remote_sysname)
                          ELSE None]
        /\ UNCHANGED <<network, reachability, devices, graph_nodes, graph_links, queue, identities,
                     clock, requests, last, consumer, classifier, planner, broker, web, chain>>

\* upsert_graph: the three find_one calls, on host, on display_name with a
\* host, on alternate_ips, one at a time, and the choice of remote_id
ResolveRemote(w) ==
    LET W == workers.w[w]
        r_ip == W.link.remote_mgmt_ip
        device_by_alt_ip ==
            Found(devices, FindOne(devices, {n \in 1..Len(devices) :
                                                InSeq(r_ip, devices[n].alternate_ips)}))
    IN  /\ workers.phase = "running"
        /\ W.pc \in {"device_by_ip", "device_by_name", "device_by_alt_ip"}
        /\ workers' =
             IF W.pc = "device_by_ip"
             THEN [workers EXCEPT
                      !.w[w].pc = "device_by_name",
                      !.w[w].device_by_ip = Found(devices, existing_by_ip(devices, r_ip))]
             ELSE IF W.pc = "device_by_name"
             THEN [workers EXCEPT
                      !.w[w].pc = "device_by_alt_ip",
                      !.w[w].device_by_name =
                          Found(devices, existing_by_name(devices, W.link.remote_sysname))]
             ELSE [workers EXCEPT
                      !.w[w].pc = "seed_node",
                      !.w[w].remote_id =
                          IF device_by_alt_ip # <<>> THEN device_by_alt_ip[1].doc.host
                          ELSE IF W.device_by_ip # <<>> THEN W.device_by_ip[1].doc.host
                          ELSE IF W.device_by_name # <<>> THEN W.device_by_name[1].doc.host
                          ELSE r_ip]
        /\ UNCHANGED <<network, reachability, devices, graph_nodes, graph_links, topology, queue, identities,
                     clock, requests, last, consumer, classifier, planner, broker, web, chain>>

\* upsert_graph: the seed node
SeedNode(w) ==
    LET W == workers.w[w]
    IN  /\ workers.phase = "running"
        /\ W.pc = "seed_node"
        /\ graph_nodes' = UpsertNode(graph_nodes, W.seed_ip, clock)
        /\ workers' = [workers EXCEPT !.w[w].pc = "remote_node"]
        /\ UNCHANGED <<network, reachability, devices, graph_links, topology, queue, identities,
                     clock, requests, last, consumer, classifier, planner, broker, web, chain>>

\* upsert_graph: the remote node
RemoteNode(w) ==
    LET W == workers.w[w]
    IN  /\ workers.phase = "running"
        /\ W.pc = "remote_node"
        /\ graph_nodes' = UpsertNode(graph_nodes, W.remote_id, clock)
        /\ workers' = [workers EXCEPT !.w[w].pc = "edge"]
        /\ UNCHANGED <<network, reachability, devices, graph_links, topology, queue, identities,
                     clock, requests, last, consumer, classifier, planner, broker, web, chain>>

\* upsert_graph: the edge
Edge(w) ==
    LET W == workers.w[w]
        ab == SortedPair(W.seed_ip, W.remote_id)
        a == ab[1]
        b == ab[2]
        if_a == IF a = W.seed_ip THEN W.link.local_if ELSE W.link.remote_port
        if_b == IF b = W.remote_id THEN W.link.remote_port ELSE W.link.local_if
    IN  /\ workers.phase = "running"
        /\ W.pc = "edge"
        /\ graph_links' = UpsertEdge(graph_links, EdgeId(a, b), a, b, if_a, if_b, clock)
        /\ workers' = [workers EXCEPT !.w[w].pc = "ready"]
        /\ UNCHANGED <<network, reachability, devices, graph_nodes, topology, queue, identities,
                     clock, requests, last, consumer, classifier, planner, broker, web, chain>>

\* update_one({"_id": oid}, {"$set": {"status": "ready", "last_seen": now}})
SetReady(w) ==
    LET W == workers.w[w]
    IN  /\ workers.phase = "running"
        /\ W.pc = "ready"
        /\ devices' = [devices EXCEPT ![W.job.device_id].status = "ready",
                                      ![W.job.device_id].last_seen = clock]
        /\ workers' = [workers EXCEPT !.w[w].pc = "default_identity"]
        /\ UNCHANGED <<network, reachability, graph_nodes, graph_links, topology, queue, identities,
                     clock, requests, last, consumer, classifier, planner, broker, web, chain>>

\* identities.find_one({"is_default": True})
FindDefault(w) ==
    LET W == workers.w[w]
    IN  /\ workers.phase = "running"
        /\ W.pc = "default_identity"
        /\ workers' = [workers EXCEPT
                          !.w[w].dflt = DefaultsOf(identities),
                          !.w[w].pc = IF Truthy(W.link.remote_mgmt_ip)
                                      THEN "existing_by_name" ELSE "existing_placeholder"]
        /\ UNCHANGED <<network, reachability, devices, graph_nodes, graph_links, topology, queue, identities,
                     clock, requests, last, consumer, classifier, planner, broker, web, chain>>

\* a neighbor without an IP: find_one({"display_name": rname, "host": ""})
FindPlaceholder(w) ==
    LET W == workers.w[w]
        existing == existing_placeholder(devices, W.link.remote_sysname)
    IN  /\ workers.phase = "running"
        /\ W.pc = "existing_placeholder"
        /\ workers' = [workers EXCEPT
                          !.w[w].pc = IF existing = 0 THEN "insert_placeholder"
                                      ELSE AfterLoop(W.new_devices_added)]
        /\ UNCHANGED <<network, reachability, devices, graph_nodes, graph_links, topology, queue, identities,
                     clock, requests, last, consumer, classifier, planner, broker, web, chain>>

\* a neighbor without an IP: insert_one of the placeholder
InsertPlaceholder(w) ==
    LET W == workers.w[w]
    IN  /\ workers.phase = "running"
        /\ W.pc = "insert_placeholder"
        /\ devices' = Append(devices, NewDevice("", W.link.remote_sysname, W.link.device_type,
                                                {}, W.dflt, W.job.depth, W.seed_ip, clock))
        /\ workers' = [workers EXCEPT !.w[w].new_devices_added = TRUE,
                                      !.w[w].pc = "cascade"]
        /\ UNCHANGED <<network, reachability, graph_nodes, graph_links, topology, queue, identities,
                     clock, requests, last, consumer, classifier, planner, broker, web, chain>>

\* find_one({"display_name": rname, "host": {"$ne": ""}})
FindByName(w) ==
    LET W == workers.w[w]
    IN  /\ workers.phase = "running"
        /\ W.pc = "existing_by_name"
        /\ workers' = [workers EXCEPT
                          !.w[w].pc = "existing_by_ip",
                          !.w[w].existing_by_name =
                              Found(devices, existing_by_name(devices, W.link.remote_sysname))]
        /\ UNCHANGED <<network, reachability, devices, graph_nodes, graph_links, topology, queue, identities,
                     clock, requests, last, consumer, classifier, planner, broker, web, chain>>

\* find_one({"host": r_ip}) and the branch taken on the two documents
FindByIp(w) ==
    LET W == workers.w[w]
        r_ip == W.link.remote_mgmt_ip
        by_ip == Found(devices, existing_by_ip(devices, r_ip))
        by_name == W.existing_by_name
        e == IF by_name # <<>> /\ by_ip = <<>> THEN by_name ELSE by_ip
        upd == e # <<>> /\
               \/ ~Truthy(e[1].doc.display_name)
               \/ e[1].doc.depth > W.job.depth + 1
               \/ ~Truthy(e[1].doc.device_type) /\ Truthy(W.link.device_type)
                                                /\ W.link.device_type # "unknown"
               \/ Truthy(r_ip) /\ Truthy(W.link.remote_port)
    IN  /\ workers.phase = "running"
        /\ W.pc = "existing_by_ip"
        /\ workers' = [workers EXCEPT
                          !.w[w].existing = e,
                          !.w[w].pc =
                              IF by_name # <<>> /\ by_ip = <<>>
                              THEN IF ~InSeq(r_ip, e[1].doc.alternate_ips) /\ r_ip # e[1].doc.host
                                   THEN "alternate_ips"
                                   ELSE IF e[1].doc.depth > W.job.depth + 1 THEN "depth"
                                   ELSE AfterLoop(W.new_devices_added)
                              ELSE IF by_ip = <<>> THEN "insert"
                              ELSE IF upd THEN "update"
                              ELSE AfterLoop(W.new_devices_added)]
        /\ UNCHANGED <<network, reachability, devices, graph_nodes, graph_links, topology, queue, identities,
                     clock, requests, last, consumer, classifier, planner, broker, web, chain>>

\* same name, other IP: {"$set": {"alternate_ips": ..., "interface_map": ...}}
\* with the list and the map of the document that was read
SetAlternateIps(w) ==
    LET W == workers.w[w]
        e == W.existing[1]
        a == AddAlternateIp(e.doc, W.link, W.job.depth, W.seed_ip)
    IN  /\ workers.phase = "running"
        /\ W.pc = "alternate_ips"
        /\ devices' = [devices EXCEPT ![e.n].alternate_ips = a.alternate_ips,
                                      ![e.n].interface_map = a.interface_map]
        /\ workers' = [workers EXCEPT
                          !.w[w].pc = IF e.doc.depth > W.job.depth + 1 THEN "depth"
                                      ELSE AfterLoop(W.new_devices_added)]
        /\ UNCHANGED <<network, reachability, graph_nodes, graph_links, topology, queue, identities,
                     clock, requests, last, consumer, classifier, planner, broker, web, chain>>

\* same name, other IP: {"$set": {"depth": depth+1, "parent": seed_ip}}
SetDepth(w) ==
    LET W == workers.w[w]
        e == W.existing[1]
        a == AddAlternateIp(e.doc, W.link, W.job.depth, W.seed_ip)
    IN  /\ workers.phase = "running"
        /\ W.pc = "depth"
        /\ devices' = [devices EXCEPT ![e.n].depth = a.depth, ![e.n].parent = a.parent]
        /\ workers' = [workers EXCEPT !.w[w].pc = AfterLoop(W.new_devices_added)]
        /\ UNCHANGED <<network, reachability, graph_nodes, graph_links, topology, queue, identities,
                     clock, requests, last, consumer, classifier, planner, broker, web, chain>>

\* no record with this IP: insert_one
Insert(w) ==
    LET W == workers.w[w]
        r_ip == W.link.remote_mgmt_ip
    IN  /\ workers.phase = "running"
        /\ W.pc = "insert"
        /\ devices' = Append(devices, NewDevice(r_ip, W.link.remote_sysname, W.link.device_type,
                                                {<<r_ip, W.link.remote_port>>}, W.dflt,
                                                W.job.depth, W.seed_ip, clock))
        /\ workers' = [workers EXCEPT
                          !.w[w].new_devices_added = TRUE,
                          !.w[w].new_id = Len(devices) + 1,
                          !.w[w].pc = IF W.job.auto_recursive /\ W.job.depth + 1 <= W.job.max_depth
                                      THEN "enqueue" ELSE "cascade"]
        /\ UNCHANGED <<network, reachability, graph_nodes, graph_links, topology, queue, identities,
                     clock, requests, last, consumer, classifier, planner, broker, web, chain>>

\* enqueue_discovery of the new record
Enqueue(w) ==
    LET W == workers.w[w]
    IN  /\ workers.phase = "running"
        /\ W.pc = "enqueue"
        /\ queue' = Append(queue, DiscoveryJob(W.new_id, W.job.depth + 1,
                                               W.job.auto_recursive, W.job.max_depth))
        /\ workers' = [workers EXCEPT !.w[w].pc = "cascade"]
        /\ UNCHANGED <<network, reachability, devices, graph_nodes, graph_links, topology, identities,
                     clock, requests, last, consumer, classifier, planner, broker, web, chain>>

\* a record with this IP: {"$set": upd}, upd computed from the document read
Update(w) ==
    LET W == workers.w[w]
        e == W.existing[1]
        u == UpdateExisting(e.doc, W.link, W.job.depth, W.seed_ip)
        r_type == W.link.device_type
    IN  /\ workers.phase = "running"
        /\ W.pc = "update"
        /\ devices' = [devices EXCEPT
              ![e.n].display_name = IF ~Truthy(e.doc.display_name) THEN u.display_name ELSE @,
              ![e.n].depth = IF e.doc.depth > W.job.depth + 1 THEN u.depth ELSE @,
              ![e.n].parent = IF e.doc.depth > W.job.depth + 1 THEN u.parent ELSE @,
              ![e.n].device_type = IF ~Truthy(e.doc.device_type) /\ Truthy(r_type)
                                                                 /\ r_type # "unknown"
                                   THEN u.device_type ELSE @,
              ![e.n].interface_map = IF Truthy(W.link.remote_mgmt_ip) /\ Truthy(W.link.remote_port)
                                     THEN u.interface_map ELSE @]
        /\ workers' = [workers EXCEPT !.w[w].pc = AfterLoop(W.new_devices_added)]
        /\ UNCHANGED <<network, reachability, graph_nodes, graph_links, topology, queue, identities,
                     clock, requests, last, consumer, classifier, planner, broker, web, chain>>

\* trigger_discover_all
Cascade(w) ==
    LET W == workers.w[w]
    IN  /\ workers.phase = "running"
        /\ W.pc = "cascade"
        /\ queue' = queue \o trigger_discover_all(devices, TRUE)
        /\ workers' = [workers EXCEPT !.w[w].pc = "done"]
        /\ UNCHANGED <<network, reachability, devices, graph_nodes, graph_links, topology, identities,
                     clock, requests, last, consumer, classifier, planner, broker, web, chain>>

NextWorkers ==
    \E w \in {1, 2} :
        \/ WriteTopology(w)
        \/ ResolveRemote(w)
        \/ SeedNode(w)
        \/ RemoteNode(w)
        \/ Edge(w)
        \/ SetReady(w)
        \/ FindDefault(w)
        \/ FindPlaceholder(w)
        \/ InsertPlaceholder(w)
        \/ FindByName(w)
        \/ FindByIp(w)
        \/ SetAlternateIps(w)
        \/ SetDepth(w)
        \/ Insert(w)
        \/ Enqueue(w)
        \/ Update(w)
        \/ Cascade(w)

SpecWorkers == InitWorkers /\ [][NextWorkers]_vars

(***************************************************************************)
(* The identity requests of the web application.  The handlers are plain   *)
(* functions, which the framework runs on a thread pool: the store         *)
(* operations of requests in progress interleave.                          *)
(***************************************************************************)
MaxWebRequests == 3

\* the _id the n-th identity document gets
IdentityIds == <<"identity-1", "identity-2", "identity-3", "identity-4", "identity-5">>

\* the document add_identity inserts
AddedIdentity(n) ==
    [_id |-> IdentityIds[n], name |-> "added", username |-> "admin",
     password |-> "secret", is_default |-> FALSE]

\* update_many({}, {"$set": {"is_default": False}})
UnsetAll(idents) == [n \in 1..Len(idents) |-> [idents[n] EXCEPT !.is_default = FALSE]]

\* update_one({"_id": oid}, {"$set": {"is_default": True}})
SetDefault(idents, id) ==
    [n \in 1..Len(idents) |->
        IF idents[n]._id = id THEN [idents[n] EXCEPT !.is_default = TRUE] ELSE idents[n]]

\* the requests a client sends: the operation, the identity it names and
\* whether its payload is complete
WebRequests ==
    {[op |-> "add_identity", id |-> None, valid |-> v] : v \in BOOLEAN}
    \cup {[op |-> "set_default_identity", id |-> IdentityIds[n], valid |-> TRUE] : n \in 1..3}
    \cup {[op |-> "unset_default_identity", id |-> None, valid |-> TRUE]}

InitWeb ==
    /\ devices = <<>>
    /\ identities \in {<<DefaultIdentity, AddedIdentity(2)>>,
                       <<[DefaultIdentity EXCEPT !.is_default = FALSE], AddedIdentity(2)>>}
    /\ graph_nodes = {}
    /\ graph_links = {}
    /\ topology = <<>>
    /\ queue = <<>>
    /\ clock = 0
    /\ requests = 0
    /\ last = NoLast
    /\ consumer = NoConsumer
    /\ classifier = NoClassifier
    /\ planner = NoPlanner
    /\ broker = Idle
    /\ workers = Idle
    /\ chain = Idle
    /\ web = [phase |-> "serving", started |-> 0, running |-> {}, completed |-> [op |-> "none", id |-> None, status |-> 0]]
    /\ network = Idle
    /\ reachability = Idle

\* the request leaves the handler with an HTTP status
Respond(r, status) ==
    [web EXCEPT !.running = @ \ {r},
                !.completed = [op |-> r.op, id |-> r.id, status |-> status]]

\* the request goes on to its next store operation
Proceed(r, pc) == [web EXCEPT !.running = (@ \ {r}) \cup {[r EXCEPT !.pc = pc]}]

\* a request arrives; its handler has validated nothing yet
Arrive(q) ==
    /\ web.phase = "serving"
    /\ web.started < MaxWebRequests
    /\ web' = [web EXCEPT
                  !.started = @ + 1,
                  !.running = @ \cup {[n |-> web.started + 1, op |-> q.op, id |-> q.id,
                                       valid |-> q.valid, pc |-> "start"]}]
    /\ UNCHANGED <<network, reachability, identities, devices, graph_nodes, graph_links, topology, queue,
                     clock, requests, last, consumer, classifier, planner, broker, workers, chain>>

\* add_identity: a payload without name, username or password is refused,
\* another is inserted with is_default false
AddIdentity(r) ==
    /\ r \in web.running
    /\ r.op = "add_identity"
    /\ identities' = IF r.valid THEN Append(identities, AddedIdentity(Len(identities) + 1))
                     ELSE identities
    /\ web' = Respond(r, IF r.valid THEN 200 ELSE 400)
    /\ UNCHANGED <<network, reachability, devices, graph_nodes, graph_links, topology, queue,
                     clock, requests, last, consumer, classifier, planner, broker, workers, chain>>

\* set_default_identity: find_one({"_id": oid})
FindIdentity(r) ==
    /\ r \in web.running
    /\ r.op = "set_default_identity"
    /\ r.pc = "start"
    /\ web' = IF \E n \in 1..Len(identities) : identities[n]._id = r.id
              THEN Proceed(r, "update_many") ELSE Respond(r, 404)
    /\ UNCHANGED <<network, reachability, identities, devices, graph_nodes, graph_links, topology, queue,
                     clock, requests, last, consumer, classifier, planner, broker, workers, chain>>

\* set_default_identity: update_many({}, {"$set": {"is_default": False}})
UnsetOthers(r) ==
    /\ r \in web.running
    /\ r.op = "set_default_identity"
    /\ r.pc = "update_many"
    /\ identities' = UnsetAll(identities)
    /\ web' = Proceed(r, "update_one")
    /\ UNCHANGED <<network, reachability, devices, graph_nodes, graph_links, topology, queue,
                     clock, requests, last, consumer, classifier, planner, broker, workers, chain>>

\* set_default_identity: update_one({"_id": oid}, {"$set": {"is_default": True}})
SetThisOne(r) ==
    /\ r \in web.running
    /\ r.op = "set_default_identity"
    /\ r.pc = "update_one"
    /\ identities' = SetDefault(identities, r.id)
    /\ web' = Respond(r, 200)
    /\ UNCHANGED <<network, reachability, devices, graph_nodes, graph_links, topology, queue,
                     clock, requests, last, consumer, classifier, planner, broker, workers, chain>>

\* unset_default_identity
UnsetDefault(r) ==
    /\ r \in web.running
    /\ r.op = "unset_default_identity"
    /\ identities' = UnsetAll(identities)
    /\ web' = Respond(r, 200)
    /\ UNCHANGED <<network, reachability, devices, graph_nodes, graph_links, topology, queue,
                     clock, requests, last, consumer, classifier, planner, broker, workers, chain>>

NextWeb ==
    \/ \E q \in WebRequests : Arrive(q)
    \/ \E r \in web.running : AddIdentity(r)
    \/ \E r \in web.running : FindIdentity(r)
    \/ \E r \in web.running : UnsetOthers(r)
    \/ \E r \in web.running : SetThisOne(r)
    \/ \E r \in web.running : UnsetDefault(r)

SpecWeb == InitWeb /\ [][NextWeb]_vars

(***************************************************************************)
(* The chained SSH connection: connect_with_jump_hosts, one send at a      *)
(* time.  What the session prints is kept as the facts the prompt loop     *)
(* tests on it.                                                            *)
(***************************************************************************)
max_attempts == 10

\* what a send can return: nothing; a password prompt; the host key
\* question; the prompt of the hop dialled, after its login; a banner line;
\* a banner with a "#" in it; the refusal of the hop dialled, after which
\* the device the ssh was typed on prints its own prompt again.
\* The facts of an output: "password:" in output.lower(); "(yes/no" or
\* "continue connecting" in it; "#" or ">" in it; its stripped last line
\* ends with "#" or ">"; it is empty when stripped
Replies ==
    [nothing   |-> [password |-> FALSE, yesno |-> FALSE, mark |-> FALSE, prompt |-> FALSE, empty |-> TRUE],
     password  |-> [password |-> TRUE, yesno |-> FALSE, mark |-> FALSE, prompt |-> FALSE, empty |-> FALSE],
     host_key  |-> [password |-> FALSE, yesno |-> TRUE, mark |-> FALSE, prompt |-> FALSE, empty |-> FALSE],
     prompt    |-> [password |-> FALSE, yesno |-> FALSE, mark |-> TRUE, prompt |-> TRUE, empty |-> FALSE],
     banner    |-> [password |-> FALSE, yesno |-> FALSE, mark |-> FALSE, prompt |-> FALSE, empty |-> FALSE],
     marked    |-> [password |-> FALSE, yesno |-> FALSE, mark |-> TRUE, prompt |-> FALSE, empty |-> FALSE],
     refused   |-> [password |-> FALSE, yesno |-> FALSE, mark |-> TRUE, prompt |-> TRUE, empty |-> FALSE]]

\* output += more
Accumulated(output, more) ==
    [password |-> output.password \/ more.password,
     yesno |-> output.yesno \/ more.yesno,
     mark |-> output.mark \/ more.mark,
     prompt |-> IF more.empty THEN output.prompt ELSE more.prompt,
     empty |-> output.empty /\ more.empty]

\* a loop that admits one attempt more
LoopRunsOnceMore(attempt) == attempt <= max_attempts

\* while attempt < max_attempts
LoopRuns(attempt) == attempt < max_attempts

\* an if chain in which a reaction taken ends the iteration
TestsExclusive(reacted) == reacted = <<>>

\* the tests of one iteration are successive ifs: each runs whatever the
\* ones before it did
TestsNext(reacted) == TRUE

\* every hop dialled with the target's credentials
HopCredentialsOfTarget(devs, target_device, jump_path, hop) ==
    <<[username |-> target_device.username, password |-> target_device.password]>>

\* the credentials for jump_path[hop]: the target's for the last hop, else
\* those of the record with that host; none when the record is missing or
\* lacks one of them
HopCredentials(devs, target_device, jump_path, hop) ==
    LET next_device == existing_by_ip(devs, jump_path[hop])
    IN  IF hop = Len(jump_path)
        THEN <<[username |-> target_device.username, password |-> target_device.password]>>
        ELSE IF next_device = 0 \/ ~Truthy(devs[next_device].username)
                                \/ ~Truthy(devs[next_device].password)
        THEN <<>>
        ELSE <<[username |-> devs[next_device].username,
                password |-> devs[next_device].password]>>

\* the inventories a chain runs against: every hop with credentials, the
\* jump host without a password, the middle hop unknown, the middle hop
\* without a username
ChainInventories ==
    LET jump == OperatorDevice("10.0.0.1", "admin", "secret")
        relay == OperatorDevice("10.2.0.9", "relay", "pa55")
        middle == OperatorDevice("10.1.0.5", "netops", "s3cret")
        target == OperatorDevice("10.1.0.6", "operator", "hunter2")
    IN  {<<jump, relay, middle, target>>,
         <<[jump EXCEPT !.password = None], relay, middle, target>>,
         <<jump, relay, target>>,
         <<jump, relay, [middle EXCEPT !.username = ""], target>>}

\* the paths find_path_to_device hands over: one, two or three hops behind
\* the jump host, and the target alone
ChainPaths ==
    {<<"10.0.0.1", "10.1.0.6">>, <<"10.0.0.1", "10.1.0.5", "10.1.0.6">>,
     <<"10.0.0.1", "10.2.0.9", "10.1.0.5", "10.1.0.6">>, <<"10.1.0.6">>}

InitChain ==
    /\ devices \in ChainInventories
    /\ identities = <<DefaultIdentity>>
    /\ graph_nodes = {}
    /\ graph_links = {}
    /\ topology = <<>>
    /\ queue = <<>>
    /\ clock = 0
    /\ requests = 0
    /\ last = NoLast
    /\ consumer = NoConsumer
    /\ classifier = NoClassifier
    /\ planner = NoPlanner
    /\ broker = Idle
    /\ workers = Idle
    /\ web = Idle
    /\ network = Idle
    /\ reachability = Idle
    /\ \E jump_path \in ChainPaths :
          chain = [phase |-> "running", pc |-> "connect", jump_path |-> jump_path,
                   target_device |-> devices[Len(devices)],
                   hop |-> 1, at |-> 0, attempt |-> 0, output |-> Replies.nothing, seen |-> Replies.nothing,
                   reacted |-> <<>>, iterated |-> FALSE, sent |-> <<>>,
                   connected |-> <<>>,
                   credentials |-> <<>>, session |-> "none", result |-> "pending",
                   raised |-> FALSE, aborted |-> "none"]

\* connect_with_jump_hosts returns: None, after the disconnect or without
Returned(disconnects, why) ==
    [chain EXCEPT !.pc = "returned", !.result = "none", !.aborted = why,
                  !.session = IF disconnects THEN "closed" ELSE @]

\* the entry: a path of fewer than two hosts, the credentials of the first
\* jump host, the ConnectHandler to it
ConnectJump(ok) ==
    LET jump_device == existing_by_ip(devices, chain.jump_path[1])
    IN  /\ chain.phase = "running"
        /\ chain.pc = "connect"
        /\ chain' =
             IF Len(chain.jump_path) < 2 THEN Returned(FALSE, "short")
             ELSE IF jump_device = 0 \/ ~Truthy(devices[jump_device].username)
                                     \/ ~Truthy(devices[jump_device].password)
             THEN Returned(FALSE, "credentials")
             ELSE IF ~ok THEN [Returned(FALSE, "raised") EXCEPT !.raised = TRUE]
             ELSE [chain EXCEPT !.pc = "hop", !.hop = 2, !.at = 1, !.session = "open"]
        /\ UNCHANGED <<network, reachability, devices, identities, graph_nodes, graph_links, topology, queue,
                     clock, requests, last, consumer, classifier, planner, broker, workers, web>>

\* the head of the for loop: the credentials of the next hop and the
\* `ssh -l` sent to it
Dial(reply) ==
    LET credentials == HopCredentials(devices, chain.target_device, chain.jump_path, chain.hop)
    IN  /\ chain.phase = "running"
        /\ chain.pc = "hop"
        /\ chain.hop <= Len(chain.jump_path)
        /\ chain' =
             IF credentials = <<>> THEN Returned(TRUE, "credentials")
             ELSE [chain EXCEPT
                     !.pc = "password", !.attempt = 0, !.reacted = <<>>, !.iterated = FALSE,
                     !.credentials = credentials,
                     !.sent = Append(@, [hop |-> chain.hop, ip |-> chain.jump_path[chain.hop],
                                         username |-> credentials[1].username]),
                     !.at = IF reply = "prompt" THEN chain.hop ELSE @,
                     !.output = Replies[reply]]
        /\ UNCHANGED <<network, reachability, devices, identities, graph_nodes, graph_links, topology, queue,
                     clock, requests, last, consumer, classifier, planner, broker, workers, web>>

\* the head of the while loop and its first test: a password prompt
ReactPassword(reply) ==
    /\ chain.phase = "running"
    /\ chain.pc = "password"
    /\ LoopRuns(chain.attempt)
    /\ chain' = [chain EXCEPT
                   !.attempt = @ + 1, !.seen = chain.output, !.iterated = FALSE,
                   !.pc = "yes",
                   !.reacted = IF chain.output.password THEN <<"password">> ELSE <<>>,
                   !.at = IF reply = "prompt" THEN chain.hop ELSE @,
                   !.output = IF chain.output.password THEN Replies[reply] ELSE @]
    /\ (~chain.output.password => reply = "nothing")
    /\ UNCHANGED <<network, reachability, devices, identities, graph_nodes, graph_links, topology, queue,
                     clock, requests, last, consumer, classifier, planner, broker, workers, web>>

\* the second test: the host key question
ReactYes(reply) ==
    LET asks == chain.output.yesno /\ TestsNext(chain.reacted)
    IN  /\ chain.phase = "running"
        /\ chain.pc = "yes"
        /\ chain' = [chain EXCEPT
                       !.pc = "prompt",
                       !.reacted = IF asks THEN Append(@, "yes") ELSE @,
                       !.at = IF reply = "prompt" THEN chain.hop ELSE @,
                       !.output = IF asks THEN Replies[reply] ELSE @]
        /\ (~asks => reply = "nothing")
        /\ UNCHANGED <<network, reachability, devices, identities, graph_nodes, graph_links, topology, queue,
                     clock, requests, last, consumer, classifier, planner, broker, workers, web>>

\* the third test: a prompt at the end of the last line; the hop is
\* connected and the loop left, whether the prompt is that of the hop or of
\* the device before it
CheckPrompt ==
    LET at_prompt == chain.output.mark /\ chain.output.prompt /\ TestsNext(chain.reacted)
    IN  /\ chain.phase = "running"
        /\ chain.pc = "prompt"
        /\ chain' = IF at_prompt
                    THEN [chain EXCEPT !.pc = "hop", !.hop = @ + 1, !.iterated = TRUE,
                                       !.reacted = Append(@, "connected"),
                                       !.connected = Append(@, [hop |-> chain.hop,
                                                                login |-> chain.at = chain.hop])]
                    ELSE [chain EXCEPT !.pc = "read"]
        /\ UNCHANGED <<network, reachability, devices, identities, graph_nodes, graph_links, topology, queue,
                     clock, requests, last, consumer, classifier, planner, broker, workers, web>>

\* the last test: an empty output is read again after 2 s, another is
\* appended to after 1 s
ReadMore(reply) ==
    LET reads == TestsNext(chain.reacted)
    IN  /\ chain.phase = "running"
        /\ chain.pc = "read"
        /\ chain' = [chain EXCEPT
                       !.pc = "password", !.iterated = TRUE,
                       !.reacted = IF ~reads THEN @
                                   ELSE IF chain.output.empty THEN Append(@, "read_empty")
                                   ELSE Append(@, "read_append"),
                       !.at = IF reply = "prompt" THEN chain.hop ELSE @,
                       !.output = IF ~reads THEN @
                                  ELSE IF chain.output.empty THEN Replies[reply]
                                  ELSE Accumulated(@, Replies[reply])]
        /\ (~reads => reply = "nothing")
        /\ UNCHANGED <<network, reachability, devices, identities, graph_nodes, graph_links, topology, queue,
                     clock, requests, last, consumer, classifier, planner, broker, workers, web>>

\* the while loop ran out: if not connected, disconnect and return None
GiveUp ==
    /\ chain.phase = "running"
    /\ chain.pc = "password"
    /\ ~LoopRuns(chain.attempt)
    /\ chain' = Returned(TRUE, "exhausted")
    /\ UNCHANGED <<network, reachability, devices, identities, graph_nodes, graph_links, topology, queue,
                     clock, requests, last, consumer, classifier, planner, broker, workers, web>>

\* every hop connected: the session is returned in proxy mode
ReturnSession ==
    /\ chain.phase = "running"
    /\ chain.pc = "hop"
    /\ chain.hop > Len(chain.jump_path)
    /\ chain' = [chain EXCEPT !.pc = "returned", !.result = "session"]
    /\ UNCHANGED <<network, reachability, devices, identities, graph_nodes, graph_links, topology, queue,
                     clock, requests, last, consumer, classifier, planner, broker, workers, web>>

\* a send raises: the except clause returns None and closes nothing
SendRaises ==
    /\ chain.phase = "running"
    /\ \/ chain.pc = "hop" /\ chain.hop <= Len(chain.jump_path)
                         /\ HopCredentials(devices, chain.target_device, chain.jump_path,
                                           chain.hop) # <<>>
       \/ chain.pc = "password" /\ LoopRuns(chain.attempt) /\ chain.output.password
       \/ chain.pc = "yes" /\ chain.output.yesno
       \/ chain.pc = "read"
    /\ chain' = [Returned(FALSE, "raised") EXCEPT !.raised = TRUE]
    /\ UNCHANGED <<network, reachability, devices, identities, graph_nodes, graph_links, topology, queue,
                     clock, requests, last, consumer, classifier, planner, broker, workers, web>>

NextChain ==
    \/ \E ok \in BOOLEAN : ConnectJump(ok)
    \/ \E reply \in DOMAIN Replies : Dial(reply)
    \/ \E reply \in DOMAIN Replies : ReactPassword(reply)
    \/ \E reply \in DOMAIN Replies : ReactYes(reply)
    \/ CheckPrompt
    \/ \E reply \in DOMAIN Replies : ReadMore(reply)
    \/ GiveUp
    \/ ReturnSession
    \/ SendRaises

SpecChain == InitChain /\ [][NextChain]_vars /\ WF_vars(NextChain)

(***************************************************************************)
(* The reachability cache.  get_directly_reachable_devices answers from    *)
(* the record of the reachability_cache collection while it is young, and  *)
(* otherwise connects to port 22 of the hosts and writes the record.  Time *)
(* is time.time() in whole seconds.                                         *)
(***************************************************************************)
\* calls of the probe in one behaviour
MaxProbes == 3

\* the probe with a record of exactly 300 s still taken as young
get_directly_reachable_devices_inclusive(cache, devs, now, up, elapsed) ==
    LET found == {i \in DOMAIN devs : devs[i].status \in {"ready", "scanning"} /\ devs[i].host # ""}
        tested == {devs[i].host : i \in {j \in found : Truthy(devs[j].host)}}
        reachable_ips == tested \cap up
    IN  IF cache # <<>> /\ now - cache[1].updated_at <= 300
        THEN [returned |-> cache[1].reachable_ips, tested |-> {}, cache |-> cache]
        ELSE [returned |-> reachable_ips, tested |-> tested,
              cache |-> <<[_id |-> "direct_reachable", reachable_ips |-> reachable_ips,
                           updated_at |-> now + elapsed]>>]

\* the call at time `now`: `up` are the hosts whose port 22 accepts a
\* connection and `elapsed` the seconds the connects take; the result is what
\* the call returns, the hosts it connected to and the cache it leaves
get_directly_reachable_devices(cache, devs, now, up, elapsed) ==
    LET found == {i \in DOMAIN devs : devs[i].status \in {"ready", "scanning"} /\ devs[i].host # ""}
        tested == {devs[i].host : i \in {j \in found : Truthy(devs[j].host)}}
        reachable_ips == tested \cap up
    IN  IF cache # <<>> /\ now - cache[1].updated_at < 300
        THEN [returned |-> cache[1].reachable_ips, tested |-> {}, cache |-> cache]
        ELSE [returned |-> reachable_ips, tested |-> tested,
              cache |-> <<[_id |-> "direct_reachable", reachable_ips |-> reachable_ips,
                           updated_at |-> now + elapsed]>>]

\* the store at the first call: a jump host that is ready, a device whose job
\* is running, one whose job failed, a placeholder without address, and a
\* device whose job has just set a blank host to scanning; the cache empty or
\* written by an earlier call
InitCache ==
    /\ devices \in
         {<<OperatorDevice("10.0.0.1", "admin", "secret"),
            [OperatorDevice("10.2.0.9", "admin", "secret") EXCEPT !.status = "scanning"],
            [OperatorDevice("10.1.0.5", "admin", "secret") EXCEPT !.status = "error"],
            [OperatorDevice("", None, None) EXCEPT !.status = s, !.display_name = "core-sw"]>> :
              s \in {"needs_ip", "scanning"}}
    /\ identities = <<DefaultIdentity>>
    /\ graph_nodes = {}
    /\ graph_links = {}
    /\ topology = <<>>
    /\ queue = <<>>
    /\ clock = 1000
    /\ requests = 0
    /\ last = NoLast
    /\ consumer = NoConsumer
    /\ classifier = NoClassifier
    /\ planner = NoPlanner
    /\ broker = Idle
    /\ workers = Idle
    /\ web = Idle
    /\ network = Idle
    /\ chain = Idle
    /\ \E cache \in {<<>>} \cup
                    {<<[_id |-> "direct_reachable", reachable_ips |-> ips, updated_at |-> 1000]>> :
                        ips \in {{}, {"10.0.0.1"}}} :
          reachability = [phase |-> "probing", cache |-> cache, calls |-> 0, before |-> cache,
                          now |-> 1000, up |-> {}, returned |-> {}, tested |-> {}]

\* one call of get_directly_reachable_devices, `wait` seconds after the
\* last one returned
Probe(wait, up, elapsed) ==
    /\ reachability.phase = "probing"
    /\ reachability.calls < MaxProbes
    /\ LET now == clock + wait
           r == get_directly_reachable_devices(reachability.cache, devices, now, up, elapsed)
       IN  /\ reachability' =
                [reachability EXCEPT !.cache = r.cache, !.calls = @ + 1,
                                     !.before = reachability.cache, !.now = now, !.up = up,
                                     !.returned = r.returned, !.tested = r.tested]
           /\ clock' = IF r.tested = {} /\ r.cache = reachability.cache THEN now ELSE now + elapsed
    /\ UNCHANGED <<network, devices, identities, graph_nodes, graph_links, topology, queue,
                   requests, last, consumer, classifier, planner, broker, workers, web, chain>>

NextCache ==
    \E wait \in {0, 1, 299, 300}, up \in SUBSET {"10.0.0.1", "10.2.0.9", "10.1.0.5"}, elapsed \in {0, 2} :
        Probe(wait, up, elapsed)

SpecCache == InitCache /\ [][NextCache]_vars

(***************************************************************************)
(* A single worker on a fixed network.  Every host answers each job the    *)
(* same way; the queue holds what one request of the operator left, and    *)
(* nothing is requested afterwards.                                        *)
(***************************************************************************)
\* jobs a behaviour may take before the exploration stops
MaxWork == 20

\* the operator's inventory and what its one request left in the queue: a
\* job for the jump host, recursive or not, or the jobs of discover_all;
\* the network is what the jump host, the two hosts behind it and the host
\* without credentials answer
InitNetwork ==
    /\ devices = <<OperatorDevice("10.0.0.1", "admin", "secret"),
                   SchedulerDevice(" ", None, None),
                   OperatorDevice("10.2.0.9", None, None)>>
    /\ identities \in {<<DefaultIdentity>>, <<[DefaultIdentity EXCEPT !.is_default = FALSE]>>}
    /\ graph_nodes = {}
    /\ graph_links = {}
    /\ topology = <<>>
    /\ queue \in {<<DiscoveryJob(1, p.depth, p.auto_recursive, p.max_depth)>> : p \in Payloads}
                 \cup {CascadeJobs(devices, 1)}
    /\ clock = 0
    /\ requests = 1
    /\ last = NoLast
    /\ consumer = NoConsumer
    /\ classifier = NoClassifier
    /\ planner = NoPlanner
    /\ broker = Idle
    /\ workers = Idle
    /\ web = Idle
    /\ chain = Idle
    /\ reachability = Idle
    /\ network \in
          LET direct(o) == [conn |-> "direct", fail |-> "none", cdp |-> o, lldp |-> <<>>, broker_up |-> TRUE]
              proxy(o) == [conn |-> "proxy", fail |-> "none", cdp |-> <<>>, lldp |-> o, broker_up |-> TRUE]
              nb(name, ip) == [remote_sysname |-> name, remote_mgmt_ip |-> ip,
                               device_type |-> ClassifiedAs(name)]
              unreachable == [NoEnv EXCEPT !.conn = "no_path"]
          IN  {[ip \in IPs |->
                  CASE ip = "10.0.0.1" -> direct(a)
                    [] ip = "10.1.0.5" -> b
                    [] ip = "10.1.0.6" -> c
                    [] OTHER -> unreachable] :
               a \in {<<Link(1, nb("core-sw", "10.1.0.5"))>>,
                      <<Link(1, nb("core-sw", "10.1.0.5")), Link(2, nb("core-sw", "10.1.0.6"))>>,
                      <<Link(1, nb("core-sw", "10.1.0.5")), Link(2, nb("dist-1", None))>>,
                      <<Link(1, nb("dist-1", "10.1.0.6")), Link(2, nb("dist-1", None))>>},
               b \in {proxy(<<Link(1, nb("dist-1", "10.0.0.1")), Link(2, nb("dist-1", "10.1.0.6"))>>),
                      proxy(<<Link(1, nb("core-sw", "10.1.0.6"))>>),
                      [NoEnv EXCEPT !.conn = "proxy", !.fail = "brief"],
                      unreachable},
               c \in {proxy(<<Link(1, nb("core-sw", "10.1.0.5")), Link(2, nb("", None))>>),
                      [NoEnv EXCEPT !.conn = "chain_failed"]}}

\* the consumer callback on the head of the queue: do_discovery_job with
\* what the job's host answers, then the ack
Work ==
    /\ queue # <<>>
    /\ clock < MaxWork
    /\ LET job == Head(queue)
           g == [nodes |-> graph_nodes, links |-> graph_links]
           env == IF Connects(job, devices) /\ devices[job.device_id].host \in IPs
                  THEN network[devices[job.device_id].host] ELSE NoEnv
       IN  /\ last' = [job |-> job, env |-> env,
                       result |-> do_discovery_job(job, env, devices, identities, g,
                                                   topology, clock + 1),
                       pre_devices |-> devices, pre_nodes |-> graph_nodes,
                       pre_links |-> graph_links, pre_topology |-> topology,
                       prev_job |-> last.job, prev_env |-> last.env,
                       prev_outcome |-> last.result.outcome]
           /\ clock' = clock + 1
           /\ devices' = last'.result.devices
           /\ graph_nodes' = last'.result.graph.nodes
           /\ graph_links' = last'.result.graph.links
           /\ topology' = last'.result.topology
           /\ queue' = Tail(queue) \o last'.result.published
    /\ UNCHANGED <<network, reachability, identities, requests, consumer, classifier, planner,
                   broker, workers, web, chain>>

\* the worker takes the head of the queue for as long as there is one; a
\* step of Work is a step that takes it
SpecNetwork ==
    InitNetwork /\ [][Work]_vars
                /\ WF_clock(queue # <<>> /\ clock < MaxWork /\ clock' = clock + 1)

(***************************************************************************)
(* Properties.  They read the record `last` of the job handled last: its   *)
(* message, its environment, what it left behind, and the store before it. *)
(***************************************************************************)
\* the job handled last got as far as the graph upsert
Persisted == last.result.seed_ip # None

\* the job handled last ran to its end without an exception
Completed == last.result.outcome = "ready"

\* graph records less last_seen
NodeFacts(nodes) == {[_id |-> n._id, id |-> n.id, first_seen |-> n.first_seen] : n \in nodes}
LinkFacts(edges) ==
    {[_id |-> e._id, a |-> e.a, b |-> e.b, ifA |-> e.ifA, ifB |-> e.ifB,
      first_seen |-> e.first_seen] : e \in edges}

\* the job handled last is the job before it, run again on the same outputs
Rerun ==
    /\ Completed
    /\ last.prev_outcome = "ready"
    /\ last.job = last.prev_job
    /\ last.env = last.prev_env

\* C1: running the same discovery job a second time on identical neighbor
\* output leaves graph_nodes and graph_links as they were, last_seen apart,
\* and inserts no device record
C1_RerunIdempotent ==
    Rerun =>
        /\ NodeFacts(graph_nodes) = NodeFacts(last.pre_nodes)
        /\ LinkFacts(graph_links) = LinkFacts(last.pre_links)
        /\ Len(devices) = Len(last.pre_devices)

\* the remote id upsert_graph computed for the i-th link of the last job
RemoteIdOf(i) == RemoteId(last.result.links[i], last.result.inventory)

\* the edge key of a node pair
KeyOf(x, y) == IF StrLeq(x, y) THEN EdgeId(x, y) ELSE EdgeId(y, x)

\* the edge record of the i-th link carries the interfaces of link j, the
\* local one on the seed's side
EdgeCarries(i, j) ==
    LET seed == last.result.seed_ip
        rid == RemoteIdOf(i)
        l == last.result.links[j]
        matching == {e \in graph_links : e._id = KeyOf(seed, rid)}
    IN  /\ Cardinality(matching) = 1
        /\ \A e \in matching :
              IF StrLeq(seed, rid)
              THEN e.a = seed /\ e.b = rid /\ e.ifA = l.local_if /\ e.ifB = l.remote_port
              ELSE e.a = rid /\ e.b = seed /\ e.ifA = l.remote_port /\ e.ifB = l.local_if

\* every edge record is keyed a|b with a <= b, one record per node pair
EdgeKeysSorted ==
    /\ \A e \in graph_links : e._id = EdgeId(e.a, e.b) /\ StrLeq(e.a, e.b)
    /\ \A e, f \in graph_links : {e.a, e.b} = {f.a, f.b} => e = f

LastLinkTo(i) ==
    CHOOSE j \in 1..Len(last.result.links) :
        /\ RemoteIdOf(j) = RemoteIdOf(i)
        /\ \A k \in (j + 1)..Len(last.result.links) : RemoteIdOf(k) # RemoteIdOf(i)

Before(i) == IF i = 1 THEN last.result.inventory ELSE last.result.steps[i - 1]
After(i) == last.result.steps[i]

\* the links of the last job that were reconciled
Reconciled == IF Persisted THEN 1..Len(last.result.steps) ELSE {}

\* the i-th link reports a name at an IP X while, in inventory inv, a
\* record of that name holds another, non-empty host and no record has host X
NameAtOtherIp(i, inv) ==
    LET l == last.result.links[i]
    IN  /\ Truthy(l.remote_mgmt_ip)
        /\ existing_by_name(inv, l.remote_sysname) # 0
        /\ existing_by_ip(inv, l.remote_mgmt_ip) = 0

\* what alternate-IP consolidation promises for the i-th link, D being the
\* k-th record: no insert, X once in D.alternate_ips, interface_map[X] the
\* link's remote port, the edge to D's host
Consolidated(i, k) ==
    LET l == last.result.links[i]
        X == l.remote_mgmt_ip
        D == After(i)[k]
        H == Before(i)[k].host
    IN  /\ Len(After(i)) = Len(Before(i))
        /\ Cardinality({q \in 1..Len(D.alternate_ips) : D.alternate_ips[q] = X}) = 1
        /\ <<X, l.remote_port>> \in D.interface_map
        /\ RemoteIdOf(i) = H
        /\ RemoteIdOf(i) # X
        /\ \E e \in graph_links :
              e._id = KeyOf(last.result.seed_ip, H) /\ e.last_seen = clock

\* C3: whenever a link reports a name at an IP that no record holds as host
\* and a record of that name has another non-empty host, the job inserts no
\* record for the link, the IP is once in that record's alternate_ips,
\* interface_map of the IP is the link's remote port, and the edge of the
\* link goes to that record's host
C3_AlternateIp ==
    \A i \in Reconciled :
        NameAtOtherIp(i, last.result.inventory) =>
            Consolidated(i, existing_by_name(last.result.inventory,
                                             last.result.links[i].remote_sysname))

\* C4: no record lists its own host among its alternate IPs, and every key
\* of interface_map is the host or an alternate IP
C4_AlternateIpsAndMap ==
    \A k \in 1..Len(devices) :
        /\ ~InSeq(devices[k].host, devices[k].alternate_ips)
        /\ MapKeys(devices[k].interface_map)
             \subseteq {devices[k].host} \cup {devices[k].alternate_ips[q] :
                                                q \in 1..Len(devices[k].alternate_ips)}

\* a record with an alternate IP and an interface for it and for its host
C4_Witness ==
    \E k \in 1..Len(devices) :
        /\ devices[k].alternate_ips # <<>>
        /\ Cardinality(MapKeys(devices[k].interface_map)) = 2

\* C5: no two records share a non-empty host, and no two records without a
\* host share a display_name
C5_HostUnique ==
    \A j, k \in 1..Len(devices) :
        j # k =>
            /\ devices[j].host # "" => devices[j].host # devices[k].host
            /\ devices[j].host = "" /\ devices[k].host = ""
                 => devices[j].display_name # devices[k].display_name

\* one job listed a new neighbor IP twice, and a new name-only neighbor
\* exists beside it
C5_Witness ==
    /\ Completed
    /\ Len(last.result.links) = 2
    /\ Truthy(last.result.links[1].remote_mgmt_ip)
    /\ last.result.links[1].remote_mgmt_ip = last.result.links[2].remote_mgmt_ip
    /\ Len(devices) = Len(last.pre_devices) + 1
    /\ \E k \in 1..Len(devices) : devices[k].host = ""

\* C6: a job never raises the depth of a record that existed before it; it
\* changes one only from above job.depth + 1 to job.depth + 1, and the
\* parent is then the seed IP
C6_DepthNonIncreasing ==
    \A k \in 1..Len(last.pre_devices) :
        /\ devices[k].depth <= last.pre_devices[k].depth
        /\ devices[k].depth # last.pre_devices[k].depth =>
              /\ last.pre_devices[k].depth > last.job.depth + 1
              /\ devices[k].depth = last.job.depth + 1
              /\ devices[k].parent = last.result.seed_ip

\* a job lowered the depth of a record
C6_Witness ==
    \E k \in 1..Len(last.pre_devices) : devices[k].depth < last.pre_devices[k].depth

\* the last job called trigger_discover_all
CascadeRan ==
    \E q \in 1..Len(last.result.trace) : last.result.trace[q].op = "trigger_discover_all"

\* jobs c are one job for each device of devs in status ready or error and
\* none for another, each with the device's depth, auto_recursive false and
\* max_depth 3
CascadeExact(c, devs) ==
    /\ \A k \in 1..Len(devs) :
          Cardinality({q \in 1..Len(c) : c[q].device_id = k})
            = IF devs[k].status \in {"ready", "error"} THEN 1 ELSE 0
    /\ \A q \in 1..Len(c) :
          /\ c[q].device_id \in 1..Len(devs)
          /\ c[q].type = "discovery"
          /\ c[q].depth = devs[c[q].device_id].depth
          /\ c[q].auto_recursive = FALSE
          /\ c[q].max_depth = 3

\* the cascade runs only in a job that inserted a device record, at most once
CascadeOnlyAfterInsert ==
    /\ (CascadeRan \/ last.result.cascade # <<>>) =>
          /\ last.result.new_devices_added
          /\ Len(devices) > Len(last.pre_devices)
    /\ Cardinality({q \in 1..Len(last.result.trace) :
                      last.result.trace[q].op = "trigger_discover_all"}) <= 1
    /\ \A q \in 1..Len(last.result.published) :
          last.result.published[q].auto_recursive = FALSE => CascadeRan

\* C7 as stated: a cascade runs only in a job that inserted a device record,
\* at most once, and publishes exactly one job per device in status ready or
\* error, with that device's depth, auto_recursive false and max_depth 3
C7_CascadeExact ==
    /\ CascadeOnlyAfterInsert
    /\ CascadeRan => CascadeExact(last.result.cascade, devices)

\* C7 amended: the cascade publishes those jobs when its connection to the
\* broker is established; when it is not, the cascade publishes nothing
C7_CascadeWhenBrokerUp ==
    /\ CascadeOnlyAfterInsert
    /\ CascadeRan /\ last.env.broker_up => CascadeExact(last.result.cascade, devices)
    /\ CascadeRan /\ ~last.env.broker_up => last.result.cascade = <<>>

\* a cascade published for several devices and passed over another
C7_Witness ==
    /\ CascadeRan
    /\ last.env.broker_up
    /\ Len(last.result.cascade) >= 2
    /\ Len(last.result.cascade) < Len(devices)

\* the last job fell back to LLDP and got as far as the graph upsert
LldpFallback == Persisted /\ last.result.used_proto = "lldp_fallback"

\* C8: in an LLDP-fallback job every link has device_type null, a record the
\* job creates has device_type null, and no existing record's device_type
\* changes
C8_LldpNoDeviceType ==
    LldpFallback =>
        /\ \A i \in 1..Len(last.result.links) : last.result.links[i].device_type = None
        /\ \A k \in 1..Len(devices) :
              k > Len(last.pre_devices) => devices[k].device_type = None
        /\ \A k \in 1..Len(last.pre_devices) :
              devices[k].device_type = last.pre_devices[k].device_type

\* an LLDP-fallback job created a record for a neighbor whose capabilities
\* classify to a type
C8_Witness ==
    /\ LldpFallback
    /\ \E i \in 1..Len(last.env.lldp), k \in 1..Len(devices) :
          /\ last.env.lldp[i].device_type = "layer3_switch"
          /\ k > Len(last.pre_devices)
          /\ devices[k].display_name = last.env.lldp[i].remote_sysname

\* an event of the trace is a command sent on the session
IsSend(e) == e.op \in {"send_command", "send_command_timing"}

\* the commands the last job sent, in order
Commands ==
    LET sent == SelectSeq(last.result.trace, IsSend)
    IN  [q \in 1..Len(sent) |-> sent[q].arg]

\* the last job had a session
SessionUp ==
    \E q \in 1..Len(last.result.trace) :
        \/ last.result.trace[q] = Event("ConnectHandler", "direct") /\ last.env.conn = "direct"
        \/ last.result.trace[q] = Event("connect_with_jump_hosts", "session")

\* the commands a job is to send given what CDP parsed to
CommandsFor(cdp_links) ==
    IF cdp_links = <<>> THEN <<ShowCdp, ShowLldp, ShowBrief>> ELSE <<ShowCdp, ShowBrief>>

\* the disconnect comes right after the last command, and nothing is sent
\* after it
DisconnectedAfterLast ==
    \A q \in 1..Len(last.result.trace) :
        IsSend(last.result.trace[q]) =>
            /\ q < Len(last.result.trace)
            /\ \/ IsSend(last.result.trace[q + 1])
               \/ last.result.trace[q + 1] = Event("disconnect", "")
            /\ \A r \in 1..(q - 1) : last.result.trace[r].op # "disconnect"

\* C9: on an established session the job sends show cdp neighbors detail,
\* then show lldp neighbors detail exactly when CDP parsed to no link, then
\* show ip interface brief once, nothing else, and disconnects after it; a
\* command that raises ends the sequence there
C9_CommandOrder ==
    /\ ~SessionUp => Commands = <<>>
    /\ SessionUp =>
          /\ Len(Commands) >= 1
          /\ Len(Commands) <= Len(CommandsFor(last.env.cdp))
          /\ SubSeq(CommandsFor(last.env.cdp), 1, Len(Commands)) = Commands
          /\ last.env.fail = "none" => Commands = CommandsFor(last.env.cdp)
          /\ DisconnectedAfterLast

\* a job got no link from CDP, took links from LLDP and ran to its end
C9_Witness ==
    /\ Completed
    /\ last.env.cdp = <<>>
    /\ last.env.lldp # <<>>
    /\ Commands = <<ShowCdp, ShowLldp, ShowBrief>>

\* the device of the last job as the job found it
JobDevice == last.pre_devices[last.job.device_id]

\* the host of the job's device is empty or whitespace
BlankHost == JobDevice.host \in {None, "", " "}

\* the job's device lacks a username or a password
NoCreds == JobDevice.username \in {None, ""} \/ JobDevice.password \in {None, ""}

\* C10: a job on a device with an empty or whitespace host ends in needs_ip,
\* otherwise a job on a device without username or password ends in
\* needs_creds; neither attempts a connection, writes a snapshot, changes the
\* graph or another device record, or publishes a job
C10_Prechecks ==
    (last.job.device_id \in 1..Len(last.pre_devices) /\ (BlankHost \/ NoCreds)) =>
        /\ devices[last.job.device_id].status
             = IF BlankHost THEN "needs_ip" ELSE "needs_creds"
        /\ last.result.trace = <<>>
        /\ \A q \in 1..Len(topology) : topology[q].created_at # clock
        /\ graph_nodes = last.pre_nodes
        /\ graph_links = last.pre_links
        /\ Len(devices) = Len(last.pre_devices)
        /\ \A k \in 1..Len(devices) :
              k # last.job.device_id => devices[k] = last.pre_devices[k]
        /\ last.result.published = <<>>

\* a job ran on a device that has neither a host nor credentials
C10_Witness ==
    /\ last.job.device_id \in 1..Len(last.pre_devices)
    /\ BlankHost
    /\ NoCreds
    /\ devices[last.job.device_id].status = "needs_ip"

\* the message of the exception the last job's environment raises in it, None
\* when no step raises: an unreachable device, a chain that fails, a show
\* command that fails, the broker refusing the job of a new neighbor
RaisedMessage ==
    LET job == last.job
        env == last.env
        recurse == job.auto_recursive /\ job.depth + 1 <= job.max_depth
    IN  IF ~Connects(job, last.pre_devices) THEN None
        ELSE IF env.conn \in {"no_path", "self_path"} THEN "Device unreachable"
        ELSE IF env.conn \in {"chain_failed", "chain_raised"} THEN "SSH chain connection failed"
        ELSE IF env.fail # "none" THEN "command failed"
        ELSE IF /\ ~env.broker_up
                /\ recurse
                /\ \E i \in Reconciled :
                      /\ Len(After(i)) > Len(Before(i))
                      /\ Truthy(last.result.links[i].remote_mgmt_ip)
        THEN "broker connection failed"
        ELSE None

\* C11: when a step from the connection to the cascade raises, the job
\* returns with its device in status error, the exception's message in the
\* error field and last_seen stamped, also when the job had set the device
\* to ready before; a job in which nothing raises does not end in error
C11_ExceptionRecorded ==
    /\ RaisedMessage # None =>
          /\ last.result.outcome = "error"
          /\ last.result.devices[last.job.device_id].status = "error"
          /\ last.result.devices[last.job.device_id].error = RaisedMessage
          /\ last.result.devices[last.job.device_id].last_seen = clock
    /\ RaisedMessage = None => last.result.outcome # "error"

\* a job that raised after it had set its device to ready
C11_Witness ==
    /\ RaisedMessage = "broker connection failed"
    /\ \E q \in 1..Len(last.result.trace) : last.result.trace[q] = Event("status", "ready")
    /\ last.result.devices[last.job.device_id].status = "error"

\* C12: when do_discovery_job returns, no SSH session the job opened is
\* still open
C12_NoSessionLeftOpen == OpenSessions(last.env.conn, last.result.trace) = 0

\* a chain raised behind its first jump host and its session stayed open
C12_Leak ==
    /\ last.env.conn = "chain_raised"
    /\ OpenSessions(last.env.conn, last.result.trace) = 1

\* the event is an enqueue
IsPublish(e) == e.op = "basic_publish"

\* C13: every message delivered to the callback is eventually acknowledged
C13_EventuallyAcked ==
    (consumer.phase = "callback") ~>
        (consumer.phase = "waiting" /\ consumer.unacked = <<>> /\ consumer.settled = "ack")

\* C14: a callback that acknowledged did so as its last step: after the job
\* returned, hence after each store write and each enqueue of the job; for a
\* type other than "discovery" it left the store and the queue as they
\* were; while a callback runs it holds the one message not acknowledged
C14_AckAfterReturn ==
    /\ consumer.phase = "waiting" /\ consumer.settled = "ack" =>
          LET log == consumer.log
          IN  /\ log[Len(log)] = Event("basic_ack", "")
              /\ \A q \in 1..(Len(log) - 1) : log[q].op # "basic_ack"
              /\ consumer.message.type = "discovery" =>
                    /\ log[Len(log) - 1] = Event("do_discovery_job", "return")
                    /\ Len(SelectSeq(log, IsPublish)) = Len(last.result.published)
              /\ consumer.message.type # "discovery" =>
                    /\ log = <<Event("cb", consumer.message.type), Event("basic_ack", "")>>
                    /\ StoreNow = consumer.pre
    /\ consumer.phase \in {"callback", "crashed"} => Len(consumer.unacked) = 1
    /\ consumer.phase = "waiting" => consumer.unacked = <<>>

\* a discovery job that wrote a snapshot and enqueued jobs was acknowledged
\* and a message of another type is next
C14_Witness ==
    /\ consumer.phase = "waiting"
    /\ consumer.settled = "ack"
    /\ consumer.message.type = "discovery"
    /\ last.result.published # <<>>
    /\ Len(topology) > 0
    /\ \E q \in 1..Len(queue) : queue[q].type = "ping"

\* the links of the last job have a remote endpoint each, no two the same
DistinctEndpoints ==
    \A i, j \in 1..Len(last.result.links) :
        /\ RemoteIdOf(i) # None
        /\ i # j => RemoteIdOf(i) # RemoteIdOf(j)

\* the node ids and the (a, b, ifA, ifB) tuples read back from the graph
GraphProjection ==
    [nodes |-> {n.id : n \in graph_nodes},
     edges |-> {<<e.a, e.b, e.ifA, e.ifB>> : e \in graph_links}]

\* C15: for links with distinct remote endpoints (none included) and an
\* empty graph, the nodes and edges build_graph returns are the node ids and
\* the (a, b, ifA, ifB) tuples of the graph after upsert_graph
C15_BuildEqualsUpsert ==
    Persisted /\ last.pre_nodes = {} /\ last.pre_links = {} /\ DistinctEndpoints =>
        /\ topology[Len(topology)].nodes = GraphProjection.nodes
        /\ topology[Len(topology)].links = GraphProjection.edges

\* the first link of the last job between the seed and the remote node of
\* link i
FirstLinkTo(i) ==
    CHOOSE j \in 1..Len(last.result.links) :
        /\ RemoteIdOf(j) = RemoteIdOf(i)
        /\ \A k \in 1..(j - 1) : RemoteIdOf(k) # RemoteIdOf(i)

\* C16: a job changes nothing but last_seen in the graph records it found:
\* node ids and first_seen stay, and so do a, b, ifA, ifB and first_seen of
\* an edge, also when the pair is observed with other interface names; a
\* record the job inserted has the job's time as first_seen, and an edge it
\* inserted keeps the interfaces of the first link that observed it
C16_ReobservationKeepsFacts ==
    /\ NodeFacts(last.pre_nodes) \subseteq NodeFacts(graph_nodes)
    /\ LinkFacts(last.pre_links) \subseteq LinkFacts(graph_links)
    /\ \A n \in graph_nodes :
          n._id \notin {m._id : m \in last.pre_nodes} => n.first_seen = clock
    /\ \A e \in graph_links :
          e._id \notin {f._id : f \in last.pre_links} => e.first_seen = clock
    /\ Persisted =>
          \A i \in 1..Len(last.result.links) :
              /\ RemoteIdOf(i) # None
              /\ KeyOf(last.result.seed_ip, RemoteIdOf(i)) \notin {f._id : f \in last.pre_links}
              => EdgeCarries(i, FirstLinkTo(i))

\* the nodes a and b are joined by an edge of the planner's graph_links
EdgeBetween(a, b) ==
    \E q \in 1..Len(planner.links) :
        \/ planner.links[q].a = a /\ planner.links[q].b = b
        \/ planner.links[q].a = b /\ planner.links[q].b = a

\* the paths from a node that answers to the target: consecutive nodes
\* joined by an edge, no node twice
PathsToTarget ==
    {p \in UNION {[1..n -> IPs] : n \in 1..Cardinality(IPs)} :
        /\ p[1] \in planner.directly_reachable_ips
        /\ p[Len(p)] = planner.target_ip
        /\ \A i, j \in 1..Len(p) : i # j => p[i] # p[j]
        /\ \A i \in 1..(Len(p) - 1) : EdgeBetween(p[i], p[i + 1])}

\* the paths of minimal length among them
ShortestPaths == {p \in PathsToTarget : \A r \in PathsToTarget : Len(p) <= Len(r)}

\* C17: for a target that does not answer itself the planner returns a
\* shortest path from a node that answers, over the edges of graph_links
\* and without a repeated node, starting at the first start in sorted order
\* among those of the shortest paths, and nothing when no node answers or no
\* path exists; for a target that answers it returns the path [target]
C17_PathPlanner ==
    planner.phase = "returned" =>
        IF planner.target_ip \in planner.directly_reachable_ips
        THEN planner.path = <<planner.target_ip>>
        ELSE IF PathsToTarget = {}
        THEN planner.path = NoPath
        ELSE /\ planner.path \in ShortestPaths
             /\ \A p \in ShortestPaths : StrLeq(planner.path[1], p[1])

\* two starts reach the target over paths of the same, minimal length of
\* three nodes, and the planner chose between them
C17_Witness ==
    /\ planner.phase = "returned"
    /\ planner.target_ip \notin planner.directly_reachable_ips
    /\ Len(planner.path) = 3
    /\ \E p \in ShortestPaths : p[1] # planner.path[1]

\* the trace of the last job
Trace == last.result.trace

\* C18: a job that connects attempts the direct connection first, calls the
\* planner only after that attempt failed, builds a chain only on a planned
\* path of two nodes or more, and, when the planner returns nothing or the
\* target alone or the chain fails, ends in status error with no show
\* command sent and no snapshot or graph record written
C18_ConnectionPlanning ==
    Connects(last.job, last.pre_devices) =>
        /\ Trace[1] = Event("ConnectHandler", "direct")
        /\ \A q \in 1..Len(Trace) :
              /\ Trace[q].op = "find_path_to_device" => q = 2 /\ last.env.conn # "direct"
              /\ Trace[q].op = "connect_with_jump_hosts" =>
                    /\ q > 2
                    /\ Trace[2] = Event("find_path_to_device", "path")
              /\ Trace[q] = Event("ConnectHandler", "jump") =>
                    Trace[q - 1] = Event("connect_with_jump_hosts", "path")
        /\ last.env.conn # "direct" => Trace[2].op = "find_path_to_device"
        /\ last.env.conn \in {"no_path", "self_path", "chain_failed", "chain_raised"} =>
              /\ last.result.outcome = "error"
              /\ devices[last.job.device_id].status = "error"
              /\ Commands = <<>>
              /\ topology = last.pre_topology
              /\ graph_nodes = last.pre_nodes
              /\ graph_links = last.pre_links

\* the direct attempt failed and the planner returned the target alone
C18_Witness ==
    /\ last.env.conn = "self_path"
    /\ Trace = <<Event("ConnectHandler", "direct"), Event("find_path_to_device", "target")>>
    /\ devices[last.job.device_id].status = "error"

\* what a word of a capability string stands for: the letter codes, the
\* words that begin with router, switch, host, station, wlan or wireless in
\* any case, and the word bridge by itself
TokenClass(w) ==
    CASE w \in {"Router", "router", "ROUTER", "R", "r"} -> {"router"}
      [] w \in {"Switch", "SWITCH", "Bridge", "bridge", "B", "S"} -> {"switch"}
      [] w \in {"Host", "Station", "H"} -> {"end"}
      [] w \in {"WLAN", "wireless", "W"} -> {"ap"}
      [] OTHER -> {}

\* the classes of the words of the string under classification
TokenSet == UNION {TokenClass(classifier.words[i]) : i \in 1..Len(classifier.words)}

\* the words of the string in reverse order
ReversedWords ==
    [i \in 1..Len(classifier.words) |-> classifier.words[Len(classifier.words) + 1 - i]]

\* the priority over the token set, the named strings other than Router
\* Source-Route-Bridge, and the independence of case, whitespace and order
ClassifiedByPriority ==
    /\ classifier.device_type =
          IF {"router", "switch"} \subseteq TokenSet THEN "layer3_switch"
          ELSE IF "router" \in TokenSet THEN "router"
          ELSE IF "switch" \in TokenSet THEN "switch"
          ELSE IF "ap" \in TokenSet THEN "ap"
          ELSE IF "end" \in TokenSet THEN "end"
          ELSE "unknown"
    /\ classifier.caps_text = <<>> => classifier.device_type = "unknown"
    /\ classifier.words \in {<<"source-route-bridge">>, <<"Source-Route-Bridge">>} =>
          classifier.device_type # "switch"
    /\ classifier.words = <<"Switch", "IGMP">> => classifier.device_type = "switch"
    /\ classifier.words = <<"R", "B">> => classifier.device_type = "layer3_switch"
    /\ classifier.device_type = classify_from_cdp_caps(Lower(classifier.caps_text))
    /\ classifier.device_type =
          classify_from_cdp_caps(CapsText(classifier.words, <<" ">>, <<<<>>, <<>>>>))
    /\ classifier.device_type =
          classify_from_cdp_caps(CapsText(ReversedWords, classifier.sep, classifier.margin))

\* C19: the classification follows the priority over the token set, does
\* not depend on case, whitespace or order, gives unknown for the empty
\* string, and Router Source-Route-Bridge classifies to layer3_switch
C19_Classification ==
    classifier.phase = "returned" =>
        /\ ClassifiedByPriority
        /\ classifier.words = <<"Router", "Source-Route-Bridge">> =>
              classifier.device_type = "layer3_switch"

\* C19 amended: the same, with Router Source-Route-Bridge classifying to
\* router, since Source-Route-Bridge adds nothing to the token set
C19_ClassificationRouter ==
    classifier.phase = "returned" =>
        /\ ClassifiedByPriority
        /\ classifier.words = <<"Router", "Source-Route-Bridge">> =>
              classifier.device_type = "router"

\* the string Router Source-Route-Bridge was classified
C19_Witness ==
    /\ classifier.phase = "returned"
    /\ classifier.words = <<"Router", "Source-Route-Bridge">>
    /\ classifier.sep = <<" ">>
    /\ classifier.device_type = "router"

\* the i-th link of the last job, taken from CDP, reports a name at an IP
\* while no record of that name, none with that host and none with that
\* alternate IP exists
NewNeighbor(i) ==
    LET l == last.result.links[i]
    IN  /\ last.result.used_proto = "cdp"
        /\ Truthy(l.remote_mgmt_ip)
        /\ \A k \in 1..Len(Before(i)) :
              /\ Before(i)[k].host # l.remote_mgmt_ip
              /\ Before(i)[k].display_name # l.remote_sysname
              /\ ~InSeq(l.remote_mgmt_ip, Before(i)[k].alternate_ips)

\* a default identity with a username and a password exists
DefaultCredentials ==
    \E q \in 1..Len(identities) :
        /\ identities[q].is_default
        /\ identities[q].username \notin {None, ""}
        /\ identities[q].password \notin {None, ""}

\* C20: a CDP job at depth d on seed S that learns a new name N at a new IP
\* X inserts one record: host X, display_name N, depth d+1, parent S, no
\* alternate IP, interface_map {X: remote port}, the classified type (null
\* for unknown), status ready with default credentials and needs_creds
\* without; when no other link of the job leads to X the edge of S and X,
\* keyed by the sorted pair, carries the local interface on S's side and
\* the remote port on X's side; a job in which nothing raises leaves the
\* seed ready
C20_NewNeighbor ==
    \A i \in Reconciled :
        NewNeighbor(i) =>
            LET l == last.result.links[i]
                new == After(i)[Len(After(i))]
            IN  /\ Len(After(i)) = Len(Before(i)) + 1
                /\ Cardinality({k \in 1..Len(After(i)) :
                                   After(i)[k].host = l.remote_mgmt_ip}) = 1
                /\ new.host = l.remote_mgmt_ip
                /\ new.display_name = l.remote_sysname
                /\ new.depth = last.job.depth + 1
                /\ new.parent = last.result.seed_ip
                /\ new.alternate_ips = <<>>
                /\ new.interface_map = {<<l.remote_mgmt_ip, l.remote_port>>}
                /\ new.device_type = IF l.device_type = "unknown" THEN None ELSE l.device_type
                /\ new.status = IF DefaultCredentials THEN "ready" ELSE "needs_creds"
                /\ RemoteIdOf(i) = l.remote_mgmt_ip
                /\ (\A j \in 1..Len(last.result.links) : j # i => RemoteIdOf(j) # RemoteIdOf(i))
                      => EdgeCarries(i, i)
                /\ RaisedMessage = None =>
                      devices[last.job.device_id].status = "ready"

\* a job at depth 0 learned core-sw, a layer-3 switch, at a new IP and ran
\* to its end
C20_Witness ==
    /\ Completed
    /\ last.job.depth = 0
    /\ Len(last.result.links) = 1
    /\ NewNeighbor(1)
    /\ last.result.links[1].device_type = "layer3_switch"
    /\ devices[Len(devices)].host = last.result.links[1].remote_mgmt_ip
    /\ devices[Len(devices)].status = "ready"
    /\ devices[last.job.device_id].status = "ready"

\* the waits of the current call double from one to the next up to 30 s
WaitsDouble ==
    \A k \in 1..Len(broker.waits) :
        /\ broker.waits[k] <= 30
        /\ k > 1 => broker.waits[k] =
                       IF 2 * broker.waits[k - 1] < 30 THEN 2 * broker.waits[k - 1] ELSE 30

\* the consumer never gives up, a publisher makes three attempts at most
AttemptsLimited ==
    /\ broker.path = "consume" => broker.phase # "raised"
    /\ broker.path # "consume" =>
          /\ broker.attempt <= 3
          /\ broker.phase = "raised" => (broker.attempt = 3 /\ broker.waits = <<1, 2>>)

\* C21: on every path the first wait is 1 s, each following wait doubles
\* the one before up to 30 s, the consumer retries without limit and a
\* publisher makes at most three attempts
C21_Backoff ==
    broker.phase # "none" =>
        /\ Len(broker.waits) >= 1 => broker.waits[1] = 1
        /\ WaitsDouble
        /\ AttemptsLimited

\* C21 amended: the same with a first wait of 2 s for the consumer
\* (2, 4, 8, 16, 30, 30, ...) and of 1 s for a publisher
C21_BackoffByPath ==
    broker.phase # "none" =>
        /\ Len(broker.waits) >= 1 =>
              broker.waits[1] = IF broker.path = "consume" THEN 2 ELSE 1
        /\ WaitsDouble
        /\ AttemptsLimited

\* the consumer failed six times in one call and waited 30 s twice
C21_Witness ==
    /\ broker.phase = "connecting"
    /\ broker.path = "consume"
    /\ broker.waits = <<2, 4, 8, 16, 30, 30>>

\* the last job found the broker down when it published the job of a new
\* neighbor
EnqueueFailed == RaisedMessage = "broker connection failed"

\* the last job found the broker down when it ran the cascade
CascadeFailed == CascadeRan /\ ~last.env.broker_up

\* C22: on both publisher paths of a job, the enqueue of a new neighbor's
\* job and the cascade, a failed broker connection ends the job with its
\* device in status error
C22_PublisherFailure ==
    EnqueueFailed \/ CascadeFailed =>
        /\ last.result.outcome = "error"
        /\ last.result.devices[last.job.device_id].status = "error"

\* C22 amended: a failed enqueue of a new neighbor's job ends the job with
\* its device in status error; a failed cascade is not passed on, the job
\* ends ready and the cascade publishes nothing
C22_EnqueueFailsCascadeSwallowed ==
    /\ EnqueueFailed =>
          /\ last.result.outcome = "error"
          /\ last.result.devices[last.job.device_id].status = "error"
          /\ last.result.devices[last.job.device_id].error = "broker connection failed"
          /\ ~CascadeRan
    /\ CascadeFailed =>
          /\ last.result.outcome = "ready"
          /\ last.result.devices[last.job.device_id].status = "ready"
          /\ last.result.cascade = <<>>

\* a job inserted a neighbor without recursion and its cascade found the
\* broker down
C22_Witness ==
    /\ CascadeFailed
    /\ ~last.job.auto_recursive
    /\ Len(devices) > Len(last.pre_devices)
    /\ last.result.outcome = "ready"

\* C23: with two workers, from one stored value of a device record to the
\* next its depth does not increase and alternate_ips loses no element
C23_MonotonicUpdates ==
    [][\A i \in 1..Len(devices) :
          /\ devices'[i].depth <= devices[i].depth
          /\ \A k \in 1..Len(devices[i].alternate_ips) :
                InSeq(devices[i].alternate_ips[k], devices'[i].alternate_ips)]_vars

\* both workers have returned
BothDone == workers.phase = "running" /\ \A w \in {1, 2} : workers.w[w].pc = "done"

\* the inventory and the graph after worker w's job has run alone on st
SerialJob(st, w) ==
    LET W == workers.w[w]
        ready == [st.devices EXCEPT ![W.job.device_id].status = "ready",
                                    ![W.job.device_id].last_seen = clock]
        acc == Reconcile([devices |-> ready, new_devices_added |-> FALSE,
                          published |-> <<>>, raised |-> FALSE, steps |-> <<>>],
                         <<W.link>>, W.job, W.seed_ip, DefaultsOf(identities), TRUE, clock)
    IN  [devices |-> acc.devices,
         g |-> upsert_graph(st.g, W.seed_ip, <<W.link>>, st.devices, clock)]

\* the graph after the two jobs have run one after the other, w1 first
SerialGraph(w1, w2) ==
    SerialJob(SerialJob([devices |-> workers.start, g |-> [nodes |-> {}, links |-> {}]], w1), w2).g

\* C24: when both workers have returned, the keys of graph_nodes and of
\* graph_links are those the two jobs leave when run one after the other in
\* some order
C24_GraphConverges ==
    BothDone =>
        \E o \in {<<1, 2>>, <<2, 1>>} :
            /\ {n._id : n \in graph_nodes} = {n._id : n \in SerialGraph(o[1], o[2]).nodes}
            /\ {e._id : e \in graph_links} = {e._id : e \in SerialGraph(o[1], o[2]).links}

\* C25: when the two jobs observed the same neighbor IP, unknown before, and
\* both workers have returned, at most one device record has that host
C25_HostUnique ==
    LET x == workers.w[1].link.remote_mgmt_ip
    IN  /\ BothDone
        /\ Truthy(x)
        /\ workers.w[2].link.remote_mgmt_ip = x
        /\ \A i \in 1..Len(workers.start) : workers.start[i].host # x
        => Cardinality({i \in 1..Len(devices) : devices[i].host = x}) <= 1

\* the identities that are the default
Defaults == {identities[n]._id : n \in {k \in 1..Len(identities) : identities[k].is_default}}

\* C26: under any interleaving of add_identity, set_default_identity and
\* unset_default_identity requests at most one identity is the default, and
\* when set_default_identity(i) has completed and no request is in progress
\* the default is exactly identity i
C26_OneDefault ==
    web.phase = "serving" =>
        /\ Cardinality(Defaults) <= 1
        /\ web.running = {} /\ web.completed.op = "set_default_identity"
                            /\ web.completed.status = 200
           => Defaults = {web.completed.id}

\* the hops of the path behind the first jump host
Hops == 2..Len(chain.jump_path)

\* the prompt loop stays within its iterations, a session is returned only
\* when every hop was connected within them, and a hop that exhausts them
\* ends the chain: disconnect, no `ssh -l` to a later hop, no session
LoopBounded ==
    chain.phase = "running" =>
        /\ chain.attempt <= max_attempts
        /\ \A k \in 1..Len(chain.connected) : chain.connected[k].hop = k + 1
        /\ chain.pc = "hop" /\ chain.connected # <<>> => chain.attempt \in 1..max_attempts
        /\ chain.result = "session" =>
              /\ Len(chain.jump_path) >= 2
              /\ {chain.connected[k].hop : k \in 1..Len(chain.connected)} = Hops
        /\ chain.aborted = "exhausted" =>
              /\ chain.attempt = max_attempts
              /\ chain.session = "closed"
              /\ chain.result = "none"
              /\ \A k \in 1..Len(chain.sent) : chain.sent[k].hop <= chain.hop
              /\ \A k \in 1..Len(chain.connected) : chain.connected[k].hop < chain.hop

\* C27: the prompt loop of a hop runs at most 10 iterations;
\* connect_with_jump_hosts returns, with a session only if every hop got to
\* a prompt within its 10 iterations; a hop that exhausts them has the
\* session disconnected, no `ssh -l` sent to a later hop and no session
\* returned
C27_LoopTerminates == []LoopBounded /\ <>(chain.pc = "returned")

\* the second hop of a path used up its 10 iterations after the first hop
\* was connected
C27_Witness ==
    /\ chain.phase = "running"
    /\ chain.aborted = "exhausted"
    /\ chain.attempt = 10
    /\ Len(chain.connected) = 1
    /\ Len(chain.sent) = 2

\* the reaction the tests pick on an output
FirstReaction(output) ==
    IF output.password THEN "password"
    ELSE IF output.yesno THEN "yes"
    ELSE IF output.mark /\ output.prompt THEN "connected"
    ELSE IF output.empty THEN "read_empty"
    ELSE "read_append"

\* an iteration of the prompt loop has just ended
Iterated == chain.phase = "running" /\ chain.iterated

\* C28: each iteration takes exactly one reaction, the first in the order
\* password, yes, connected, read of an empty output, appended read that
\* the output at its start calls for
C28_OneReaction ==
    Iterated =>
        /\ Len(chain.reacted) = 1
        /\ chain.reacted[1] = FirstReaction(chain.seen)

\* C28 amended: the tests run one after the other in that order, each on
\* the output the reaction before it left: an iteration sends the password
\* at most once, then `yes` at most once, and ends with the hop connected
\* or with one read; its first reaction is the one the output at its start
\* calls for
C28_SuccessiveReactions ==
    Iterated =>
        LET n == Len(chain.reacted)
        IN  /\ n \in 1..3
            /\ chain.reacted[1] = FirstReaction(chain.seen)
            /\ chain.reacted[n] \in {"connected", "read_empty", "read_append"}
            /\ \A k \in 1..(n - 1) : chain.reacted[k] \in {"password", "yes"}
            /\ n = 3 => chain.reacted[1] = "password" /\ chain.reacted[2] = "yes"

\* one iteration sent the password, then `yes`, then read again
C28_Witness ==
    /\ Iterated
    /\ chain.reacted = <<"password", "yes", "read_empty">>

\* the credentials the chain is to use for the hop at place h of the path
ExpectedCredentials(h) ==
    LET n == existing_by_ip(devices, chain.jump_path[h])
    IN  IF h = Len(chain.jump_path)
        THEN [username |-> chain.target_device.username,
              password |-> chain.target_device.password]
        ELSE IF n = 0 THEN [username |-> None, password |-> None]
        ELSE [username |-> devices[n].username, password |-> devices[n].password]

\* a host of the path whose record is missing or lacks a credential
LacksCredentials(h) ==
    LET n == existing_by_ip(devices, chain.jump_path[h])
    IN  n = 0 \/ ~Truthy(devices[n].username) \/ ~Truthy(devices[n].password)

\* C29: one `ssh -l` per hop, in path order, each after the hop before it
\* was connected, with the credentials of the hop's record, for the last
\* hop those of the target; when the first jump host or an intermediate hop
\* has no record or lacks a credential the chain ends without an `ssh -l`
\* to that hop or a later one and with no session left open
C29_ChainOrder ==
    chain.phase = "running" =>
        /\ \A k \in 1..Len(chain.sent) :
              /\ chain.sent[k].hop = k + 1
              /\ chain.sent[k].ip = chain.jump_path[k + 1]
              /\ chain.sent[k].username = ExpectedCredentials(k + 1).username
              /\ Len(chain.connected) >= k - 1
        /\ chain.sent # <<>> /\ ~chain.raised =>
              chain.credentials = <<ExpectedCredentials(Len(chain.sent) + 1)>>
        /\ chain.result = "session" => Len(chain.sent) = Len(chain.jump_path) - 1
        /\ \A h \in 1..(Len(chain.jump_path) - 1) :
              Len(chain.jump_path) >= 2 /\ LacksCredentials(h) =>
                  /\ \A k \in 1..Len(chain.sent) : chain.sent[k].hop < h
                  /\ chain.result # "session"
        /\ chain.aborted = "credentials" =>
              /\ chain.session # "open"
              /\ chain.result = "none"
              /\ LacksCredentials(chain.hop)
              /\ Len(chain.sent) = IF chain.hop = 1 THEN 0 ELSE chain.hop - 2

\* the chain ended at an intermediate hop without a username, after the hop
\* before it was dialled and connected, and the session was disconnected
C29_Witness ==
    /\ chain.phase = "running"
    /\ chain.aborted = "credentials"
    /\ chain.session = "closed"
    /\ Len(chain.sent) = 1
    /\ Len(chain.connected) = 1

\* the show commands the last job sent, with the way each was sent
Sends == SelectSeq(last.result.trace, IsSend)

\* the last job's session came from the SSH chain
ChainUp ==
    \E q \in 1..Len(last.result.trace) :
        last.result.trace[q] = Event("connect_with_jump_hosts", "session")

\* the last job's direct connection succeeded
DirectUp ==
    /\ last.env.conn = "direct"
    /\ \E q \in 1..Len(last.result.trace) :
          last.result.trace[q] = Event("ConnectHandler", "direct")

\* C30: within a job every show command is sent timing-based if and only
\* if the session came from the SSH chain and framed if and only if the
\* direct connection succeeded; the way of sending does not change during
\* the job
C30_ModeCorrectTransport ==
    /\ \A q \in 1..Len(Sends) :
          /\ Sends[q].op = "send_command_timing" <=> ChainUp
          /\ Sends[q].op = "send_command" <=> DirectUp
          /\ Sends[q].op = Sends[1].op
    /\ Sends # <<>> => (ChainUp \/ DirectUp) /\ ~(ChainUp /\ DirectUp)

\* a job through the chain fell back to LLDP and sent its three commands
\* timing-based
C30_Witness ==
    /\ ChainUp
    /\ Len(Sends) = 3
    /\ \A q \in 1..3 : Sends[q].op = "send_command_timing"
    /\ last.result.outcome = "ready"

(***************************************************************************)
(* The reachability cache                                                  *)
(***************************************************************************)
\* the record the last call found was younger than 300 s
Young ==
    /\ reachability.before # <<>>
    /\ reachability.now - reachability.before[1].updated_at < 300

\* the hosts of the devices that are ready or scanning and have a host
Candidates ==
    {devices[i].host : i \in {j \in DOMAIN devices :
        devices[j].status \in {"ready", "scanning"} /\ Truthy(devices[j].host)}}

\* C31: a call that finds a record younger than 300 s returns the record's
\* reachable_ips, connects to nothing and leaves the record as it is; a call
\* that finds no record, or one of 300 s or more, connects to the hosts of the
\* devices that are ready or scanning and have a host, to no other, returns
\* the hosts that accepted, and leaves the record holding that set and the
\* time of the write
C31_CacheTtl ==
    reachability.phase = "probing" /\ reachability.calls > 0 =>
        IF Young
        THEN /\ reachability.returned = reachability.before[1].reachable_ips
             /\ reachability.tested = {}
             /\ reachability.cache = reachability.before
        ELSE /\ reachability.tested = Candidates
             /\ reachability.returned = Candidates \cap reachability.up
             /\ reachability.cache # <<>>
             /\ reachability.cache[1].reachable_ips = reachability.returned
             /\ reachability.cache[1].updated_at = clock

\* a second call answered from a record of 299 s that a first call wrote, when
\* the hosts that accept have changed since
C31_Witness ==
    /\ reachability.phase = "probing"
    /\ reachability.calls = 2
    /\ Young
    /\ reachability.now - reachability.before[1].updated_at = 299
    /\ reachability.returned = {"10.0.0.1", "10.2.0.9"}
    /\ reachability.up = {"10.1.0.5"}

(***************************************************************************)
(* The order of persistence                                                *)
(***************************************************************************)
\* what a job that completes does once its last command has been answered
PersistenceSteps ==
    <<Event("disconnect", ""), Event("write_topology", last.result.seed_ip),
      Event("upsert_graph", last.result.seed_ip), Event("status", "ready"),
      Event("reconcile", last.result.seed_ip)>> \o
    (IF last.result.new_devices_added THEN <<Event("trigger_discover_all", "")>> ELSE <<>>)

\* the graph the last job would have left had it resolved its remote ids
\* in inventory inv
GraphFrom(inv) ==
    upsert_graph([nodes |-> last.pre_nodes, links |-> last.pre_links],
                 last.result.seed_ip, last.result.links, inv, clock)

\* the snapshots the last job would have left had it resolved its remote
\* ids in inventory inv
TopologyFrom(inv) ==
    LET built == build_graph(last.result.seed_ip, last.result.links, inv)
    IN  write_topology(last.pre_topology, last.result.seed_ip, built.nodes, built.edges,
                       BriefText, clock)

\* C32: a job that completes ends with the disconnect, the snapshot, the
\* graph upsert, the status ready, the reconciliation and the cascade, each
\* once and in this order, and its snapshot and its graph are those of the
\* remote ids resolved in the inventory the job started from
C32_PersistenceOrder ==
    Completed /\ Persisted =>
        LET t == last.result.trace
            n == Len(PersistenceSteps)
        IN  /\ Len(t) > n
            /\ SubSeq(t, Len(t) - n + 1, Len(t)) = PersistenceSteps
            /\ \A q \in 1..(Len(t) - n) :
                  t[q].op \notin {"disconnect", "write_topology", "upsert_graph", "status",
                                  "reconcile", "trigger_discover_all"}
            /\ IsSend(t[Len(t) - n])
            /\ graph_nodes = GraphFrom(last.pre_devices).nodes
            /\ graph_links = GraphFrom(last.pre_devices).links
            /\ topology = TopologyFrom(last.pre_devices)

\* a completed job whose reconciliation changed what its links resolve to:
\* resolved in the inventory it left, the graph and the snapshot would differ
C32_Witness ==
    /\ Completed
    /\ Persisted
    /\ last.result.new_devices_added
    /\ GraphFrom(devices).nodes # graph_nodes
    /\ TopologyFrom(devices) # topology

(***************************************************************************)
(* Auto-recursion                                                          *)
(***************************************************************************)
\* the messages the neighbor loop of the last job published, before the
\* cascade
Children ==
    SubSeq(last.result.published, 1,
           Len(last.result.published) - Len(last.result.cascade))

\* the record of a child's device was inserted by the last job for a link
\* with a management IP that no record held as host
NewlyCreated(c) ==
    /\ c.device_id > Len(last.pre_devices)
    /\ c.device_id <= Len(devices)
    /\ Truthy(devices[c.device_id].host)
    /\ devices[c.device_id].created_at = clock
    /\ \E i \in 1..Len(last.result.links) :
          last.result.links[i].remote_mgmt_ip = devices[c.device_id].host
    /\ \A k \in 1..Len(last.pre_devices) :
          last.pre_devices[k].host # devices[c.device_id].host

\* C33: the neighbor loop enqueues a job only for a record the job has
\* inserted for a management IP, and only when the job is auto_recursive and
\* job.depth+1 <= max_depth; the child carries depth job.depth+1,
\* auto_recursive true and the job's max_depth; the only auto_recursive
\* messages published are these, and every auto_recursive job in the queue
\* has depth <= max_depth
C33_AutoRecursion ==
    /\ \A q \in 1..Len(Children) :
          LET c == Children[q]
          IN  /\ last.job.auto_recursive
              /\ last.job.depth + 1 <= last.job.max_depth
              /\ c = DiscoveryJob(c.device_id, last.job.depth + 1, TRUE, last.job.max_depth)
              /\ NewlyCreated(c)
    /\ \A q \in 1..Len(last.result.cascade) : ~last.result.cascade[q].auto_recursive
    /\ \A q \in 1..Len(queue) : queue[q].auto_recursive => queue[q].depth <= queue[q].max_depth

\* a job that was itself enqueued as a child enqueues a child at max_depth,
\* for one link, and none for the placeholder it inserts for the other
C33_Witness ==
    /\ Len(Children) = 1
    /\ last.job.depth = 1
    /\ Children[1].depth = Children[1].max_depth
    /\ Len(devices) = Len(last.pre_devices) + 2
    /\ \E k \in 1..Len(devices) : k > Len(last.pre_devices) /\ devices[k].host = ""

(***************************************************************************)
(* Alternate IPs and the graph                                             *)
(***************************************************************************)
\* the IPs some device record lists in its alternate_ips
AlternateIps ==
    UNION {{devices[k].alternate_ips[q] : q \in DOMAIN devices[k].alternate_ips} :
              k \in DOMAIN devices}

\* C34: no node id and no edge endpoint of the graph is an IP that a device
\* record lists in its alternate_ips
C34_NoAlternateIpInGraph ==
    /\ \A n \in graph_nodes : n.id \notin AlternateIps
    /\ \A e \in graph_links : e.a \notin AlternateIps /\ e.b \notin AlternateIps

(***************************************************************************)
(* Self-loops                                                              *)
(***************************************************************************)
\* C35: no edge of graph_links joins a node to itself
C35_NoSelfLoop == \A e \in graph_links : e.a # e.b

(***************************************************************************)
(* Hosts and alternate IPs                                                 *)
(***************************************************************************)
\* C36: no IP is the host of one device record and listed in the
\* alternate_ips of another
C36_HostNotAlternate ==
    \A k, n \in DOMAIN devices :
        k # n => ~InSeq(devices[k].host, devices[n].alternate_ips)

(***************************************************************************)
(* The login of a hop                                                      *)
(***************************************************************************)
\* C37: every hop the chain reports as connected was logged in to, and a
\* session that is returned is a shell on the target, the last host of the
\* path
C37_ConnectedMeansLoggedIn ==
    chain.phase = "running" =>
        /\ \A k \in 1..Len(chain.connected) : chain.connected[k].login
        /\ chain.result = "session" => chain.at = Len(chain.jump_path)

\* the remote has printed a password prompt in the reply just read, and the
\* iteration has not answered it
PasswordPending ==
    /\ chain.phase = "running"
    /\ chain.pc \in {"yes", "prompt", "read"}
    /\ chain.output.password

\* C38: while a password prompt is pending the driver sends nothing but the
\* password: no "yes" and no empty line
C38_OnlyPasswordWhilePending ==
    [][PasswordPending /\ chain'.reacted # chain.reacted =>
          chain'.reacted[Len(chain'.reacted)] \notin {"yes", "read_empty", "read_append"}]_vars

(***************************************************************************)
(* The status a job leaves                                                 *)
(***************************************************************************)
\* C40: between the jobs of a single worker no device record has the status
\* scanning, and the record of the job that returned last, if it exists, is
\* ready, error, needs_ip or needs_creds
C40_NoScanningLeft ==
    /\ \A k \in DOMAIN devices : devices[k].status # "scanning"
    /\ last.job.device_id \in DOMAIN last.pre_devices =>
          devices[last.job.device_id].status \in {"ready", "error", "needs_ip", "needs_creds"}

\* the last job raised on the session it had established, for a record that
\* was ready before it
C40_Witness ==
    /\ last.job.device_id \in DOMAIN last.pre_devices
    /\ last.result.outcome = "error"
    /\ \E q \in 1..Len(last.result.trace) : IsSend(last.result.trace[q])
    /\ devices[last.job.device_id].status = "error"
    /\ last.pre_devices[last.job.device_id].status = "ready"

(***************************************************************************)
(* Termination of discovery                                                *)
(***************************************************************************)
\* the addresses and the names without an address that the hosts of the
\* network report
Reported ==
    UNION {{<<o[i].remote_sysname, o[i].remote_mgmt_ip>> : i \in DOMAIN o} :
              o \in UNION {{network[ip].cdp, network[ip].lldp} : ip \in DOMAIN network}}

\* the inventory holds no more than the operator's records, a record for
\* each address reported and a placeholder for each name reported without
RecordsBounded ==
    network # Idle =>
        Len(devices) <=
            3 + Cardinality({r[2] : r \in {q \in Reported : Truthy(q[2])}})
              + Cardinality({r[1] : r \in {q \in Reported : ~Truthy(q[2])}})

\* a job cascades only if it has inserted a record
CascadesOnInsert ==
    last'.result.cascade # <<>> => Len(devices') > Len(devices)

\* C39: on a fixed network and with a fair single worker the number of
\* device records stays bounded, a job that inserts no record cascades
\* nothing, and the queue becomes empty and stays empty
C39_DiscoveryTerminates ==
    /\ []RecordsBounded
    /\ [][CascadesOnInsert]_vars
    /\ <>[](queue = <<>>)

\* the queue is empty after the jobs of a cascade: the worker has taken more
\* jobs than the request left, the inventory has grown by a record and a
\* placeholder, and the last job cascaded nothing
C39_Witness ==
    /\ network # Idle
    /\ queue = <<>>
    /\ clock >= 8
    /\ Len(devices) >= 5
    /\ \E k \in DOMAIN devices : devices[k].host = ""
    /\ last.result.cascade = <<>>
====
